---------------------------- MODULE Spec2Model ----------------------------
(***************************************************************************)
(* Cutting-materials: the Best-Fit-Decreasing allocation engine            *)
(* (packages/cutting-core/src/index.ts) and the plan store that stages and *)
(* commits its plans against the inventory ledger                          *)
(* (apps/api/src/db/memory-store.ts, apps/api/src/db/postgres-store.ts).   *)
(*                                                                         *)
(* Lengths are millimetres.  A JavaScript number handed to the engine is   *)
(* a record [kind, n]: kind "int" is the integer n, kind "half" is n + 1/2 *)
(* (a value Math.round moves), kind "nan" is a non-finite value.           *)
(***************************************************************************)
EXTENDS Integers, Sequences, FiniteSets

VARIABLES
  engInput,         \* the arguments of the engine call under check
  engResult,        \* the CutPlanResult the call returned (once engDone)
  engDone,          \* whether the engine call has returned
  store,            \* "memory" (MemoryStore) or "postgres" (PostgresStore)
  inventory,        \* the ledger: row id -> [id, inventoryClass, lengthMm, qty]
  nextInventoryId,  \* MemoryStore.nextInventoryId / the inventory id sequence
  plans,            \* staged plans, indexed by plan identifier 1..Len(plans)
  tasks,            \* the commitPlan invocations, by call slot
  adds,             \* number of addInventory calls made so far
  orders,           \* the order queue, indexed by order identifier 1..Len(orders)
  accepts,          \* the acceptStoredOrder invocations, by the route calling
  batch             \* the POST /orders/accept-all request

engVars == <<engInput, engResult, engDone>>
storeVars == <<store, inventory, nextInventoryId, plans, tasks, adds>>
ordVars == <<orders, accepts, batch>>
vars == <<engInput, engResult, engDone, store, inventory, nextInventoryId,
          plans, tasks, adds, orders, accepts, batch>>

-----------------------------------------------------------------------------
(* JavaScript numbers *)

Num(n) == [kind |-> "int", n |-> n]
Half(n) == [kind |-> "half", n |-> n]
NaN == [kind |-> "nan", n |-> 0]

Max(a, b) == IF a >= b THEN a ELSE b

\* index.ts toNonNegativeInt: 0 for a non-finite value, else
\* Math.max(0, Math.round(value)); Math.round(n + 1/2) = n + 1.
toNonNegativeInt(value) ==
  IF value.kind = "nan" THEN 0
  ELSE IF value.kind = "half" THEN Max(0, value.n + 1)
  ELSE Max(0, value.n)

-----------------------------------------------------------------------------
(* Sequence helpers standing for Array.prototype methods *)

RECURSIVE SeqSum(_)
SeqSum(s) == IF s = <<>> THEN 0 ELSE Head(s) + SeqSum(Tail(s))

RECURSIVE Repeat(_, _)
Repeat(s, k) == IF k <= 0 THEN <<>> ELSE s \o Repeat(s, k - 1)

\* An array of integers as an array of JavaScript numbers.
AsNumbers(s) == [i \in 1..Len(s) |-> Num(s[i])]

\* pieces.sort((a, b) => b - a): a stable sort, descending.
RECURSIVE InsertDesc(_, _)
InsertDesc(sorted, x) ==
  IF sorted = <<>> THEN <<x>>
  ELSE IF Head(sorted) >= x THEN <<Head(sorted)>> \o InsertDesc(Tail(sorted), x)
  ELSE <<x>> \o sorted

RECURSIVE SortDesc(_)
SortDesc(s) ==
  IF s = <<>> THEN <<>>
  ELSE InsertDesc(SortDesc(SubSeq(s, 1, Len(s) - 1)), s[Len(s)])

SetMax(S) == CHOOSE x \in S : \A y \in S : y <= x
SetMin(S) == CHOOSE x \in S : \A y \in S : x <= y

\* The keys of a Map with numeric keys, sorted descending / ascending.
RECURSIVE KeysDesc(_)
KeysDesc(S) == IF S = {} THEN <<>> ELSE <<SetMax(S)>> \o KeysDesc(S \ {SetMax(S)})

RECURSIVE KeysAsc(_)
KeysAsc(S) == IF S = {} THEN <<>> ELSE <<SetMin(S)>> \o KeysAsc(S \ {SetMin(S)})

SeqRange(s) == {s[i] : i \in 1..Len(s)}

-----------------------------------------------------------------------------
(* packages/cutting-core/src/index.ts *)

\* The defaults with no kerf.
DEFAULT_PLAN_PARAMS_NoKerf ==
  [kerfMm |-> 0, allowanceMm |-> 1, minRemnantMm |-> 100, toleranceMm |-> 1]

DEFAULT_PLAN_PARAMS ==
  [kerfMm |-> 3, allowanceMm |-> 1, minRemnantMm |-> 100, toleranceMm |-> 1]

\* params is a Partial<PlanParams>: a record holding some of the four fields.
normalizePlanParams(params) ==
  [kerfMm |-> IF "kerfMm" \in DOMAIN params
              THEN params.kerfMm ELSE DEFAULT_PLAN_PARAMS.kerfMm,
   allowanceMm |-> IF "allowanceMm" \in DOMAIN params
                   THEN params.allowanceMm ELSE DEFAULT_PLAN_PARAMS.allowanceMm,
   minRemnantMm |-> IF "minRemnantMm" \in DOMAIN params
                    THEN params.minRemnantMm ELSE DEFAULT_PLAN_PARAMS.minRemnantMm,
   toleranceMm |-> IF "toleranceMm" \in DOMAIN params
                   THEN params.toleranceMm ELSE DEFAULT_PLAN_PARAMS.toleranceMm]

\* One order line expanded once per unit of quantity.
LinePieces_Once(line) ==
  LET heightMm == toNonNegativeInt(line.heightMm)
      widthMm == toNonNegativeInt(line.widthMm)
      qty == toNonNegativeInt(line.qty)
  IN SelectSeq(Repeat(<<heightMm, widthMm>>, qty), LAMBDA piece : piece > 0)

\* One order line: 2 * qty times (height, width), non-positive values dropped.
LinePieces(line) ==
  LET heightMm == toNonNegativeInt(line.heightMm)
      widthMm == toNonNegativeInt(line.widthMm)
      qty == toNonNegativeInt(line.qty)
  IN SelectSeq(Repeat(<<heightMm, widthMm>>, 2 * qty), LAMBDA piece : piece > 0)

RECURSIVE expandOrderToPieces(_)
expandOrderToPieces(orderLines) ==
  IF orderLines = <<>> THEN <<>>
  ELSE LinePieces(Head(orderLines)) \o expandOrderToPieces(Tail(orderLines))

\* A row expanded into one bar more than its quantity.
ItemBars_OneMore(item) ==
  LET lengthMm == toNonNegativeInt(item.lengthMm)
      qty == toNonNegativeInt(item.qty)
  IN Repeat(<<[sourceId |-> item.id, originalMm |-> lengthMm,
               remainingMm |-> lengthMm, cuts |-> <<>>]>>, qty + 1)

ItemBars(item) ==
  LET lengthMm == toNonNegativeInt(item.lengthMm)
      qty == toNonNegativeInt(item.qty)
  IN Repeat(<<[sourceId |-> item.id, originalMm |-> lengthMm,
               remainingMm |-> lengthMm, cuts |-> <<>>]>>, qty)

\* The expansion that makes one bar of a row whatever its qty.
expandInventory_OneBarPerRow(items) ==
  LET rows == SelectSeq(items, LAMBDA item : toNonNegativeInt(item.qty) > 0)
  IN [i \in 1..Len(rows) |->
        [sourceId |-> rows[i].id, originalMm |-> toNonNegativeInt(rows[i].lengthMm),
         remainingMm |-> toNonNegativeInt(rows[i].lengthMm), cuts |-> <<>>]]

RECURSIVE expandInventory(_)
expandInventory(items) ==
  IF items = <<>> THEN <<>>
  ELSE ItemBars(Head(items)) \o expandInventory(Tail(items))

countOf(values, target) ==
  Cardinality({i \in 1..Len(values) : values[i] = target})

summarizePieces(pieces) ==
  LET keys == KeysAsc(SeqRange(pieces))
  IN [i \in 1..Len(keys) |-> [pieceMm |-> keys[i], count |-> countOf(pieces, keys[i])]]

\* Math.max(0, ...inventoryItems.map((x) => toNonNegativeInt(x.lengthMm)))
MaxStock(inventoryItems) ==
  SetMax({0} \cup {toNonNegativeInt(inventoryItems[i].lengthMm) :
                     i \in 1..Len(inventoryItems)})

\* The scan without the test that the bar can hold the piece.
RECURSIVE ScanBars_NoFitTest(_, _, _, _, _)
ScanBars_NoFitTest(bars, effectiveMm, i, bestIdx, bestRemnant) ==
  IF i > Len(bars) THEN bestIdx
  ELSE LET remnant == bars[i].remainingMm - effectiveMm
       IN IF bestIdx = 0 \/ remnant < bestRemnant
          THEN ScanBars_NoFitTest(bars, effectiveMm, i + 1, i, remnant)
          ELSE ScanBars_NoFitTest(bars, effectiveMm, i + 1, bestIdx, bestRemnant)

\* The scan stopping at the first bar that can hold the piece.
RECURSIVE ScanBars_FirstFit(_, _, _, _, _)
ScanBars_FirstFit(bars, effectiveMm, i, bestIdx, bestRemnant) ==
  IF i > Len(bars) THEN bestIdx
  ELSE IF bars[i].remainingMm < effectiveMm
       THEN ScanBars_FirstFit(bars, effectiveMm, i + 1, bestIdx, bestRemnant)
       ELSE i

\* The scan that moves on to a later bar of equal leftover.
RECURSIVE ScanBars_LastOfTies(_, _, _, _, _)
ScanBars_LastOfTies(bars, effectiveMm, i, bestIdx, bestRemnant) ==
  IF i > Len(bars) THEN bestIdx
  ELSE IF bars[i].remainingMm < effectiveMm
       THEN ScanBars_LastOfTies(bars, effectiveMm, i + 1, bestIdx, bestRemnant)
       ELSE LET remnant == bars[i].remainingMm - effectiveMm
            IN IF bestIdx = 0 \/ remnant <= bestRemnant
               THEN ScanBars_LastOfTies(bars, effectiveMm, i + 1, i, remnant)
               ELSE ScanBars_LastOfTies(bars, effectiveMm, i + 1, bestIdx, bestRemnant)

\* The inner scan of the placement loop: bestIdx is 0 while no bar fits
\* (the code's -1, with bestRemnant = +Infinity).
RECURSIVE ScanBars(_, _, _, _, _)
ScanBars(bars, effectiveMm, i, bestIdx, bestRemnant) ==
  IF i > Len(bars) THEN bestIdx
  ELSE IF bars[i].remainingMm < effectiveMm
       THEN ScanBars(bars, effectiveMm, i + 1, bestIdx, bestRemnant)
       ELSE LET remnant == bars[i].remainingMm - effectiveMm
            IN IF bestIdx = 0 \/ remnant < bestRemnant
               THEN ScanBars(bars, effectiveMm, i + 1, i, remnant)
               ELSE ScanBars(bars, effectiveMm, i + 1, bestIdx, bestRemnant)

\* The search that tries the first bar only.
BestIdx_FirstBarOnly(bars, effectiveMm) ==
  IF bars # <<>> /\ bars[1].remainingMm >= effectiveMm THEN 1 ELSE 0

BestIdx(bars, effectiveMm) == ScanBars(bars, effectiveMm, 1, 0, 0)

\* The placement step with the shortage count of a length not accumulated.
PlacePiece_NoCount(st, piece, normalizedParams) ==
  LET effectiveMm == piece + normalizedParams.allowanceMm + normalizedParams.kerfMm
      bestIdx == BestIdx(st.bars, effectiveMm)
  IN IF bestIdx = 0
     THEN [st EXCEPT !.shortageMap =
             [p \in DOMAIN st.shortageMap \cup {piece} |->
                IF p = piece THEN 1 ELSE st.shortageMap[p]]]
     ELSE [st EXCEPT !.bars[bestIdx].cuts =
                       Append(@, [pieceMm |-> piece, effectiveMm |-> effectiveMm]),
                     !.bars[bestIdx].remainingMm = @ - effectiveMm]

\* The placement step that forgets a piece no bar can hold.
PlacePiece_DropsUnplaced(st, piece, normalizedParams) ==
  LET effectiveMm == piece + normalizedParams.allowanceMm + normalizedParams.kerfMm
      bestIdx == BestIdx(st.bars, effectiveMm)
  IN IF bestIdx = 0
     THEN st
     ELSE [st EXCEPT !.bars[bestIdx].cuts =
                       Append(@, [pieceMm |-> piece, effectiveMm |-> effectiveMm]),
                     !.bars[bestIdx].remainingMm = @ - effectiveMm]

\* One iteration of "for (const piece of pieces)": st = [bars, shortageMap].
PlacePiece(st, piece, normalizedParams) ==
  LET effectiveMm == piece + normalizedParams.allowanceMm + normalizedParams.kerfMm
      bestIdx == BestIdx(st.bars, effectiveMm)
  IN IF bestIdx = 0
     THEN [st EXCEPT !.shortageMap =
             IF piece \in DOMAIN st.shortageMap
             THEN [st.shortageMap EXCEPT ![piece] = @ + 1]
             ELSE [p \in DOMAIN st.shortageMap \cup {piece} |->
                     IF p = piece THEN 1 ELSE st.shortageMap[p]]]
     ELSE [st EXCEPT !.bars[bestIdx].cuts =
                       Append(@, [pieceMm |-> piece, effectiveMm |-> effectiveMm]),
                     !.bars[bestIdx].remainingMm = @ - effectiveMm]

RECURSIVE PlaceAll(_, _, _)
PlaceAll(st, pieces, normalizedParams) ==
  IF pieces = <<>> THEN st
  ELSE PlaceAll(PlacePiece(st, Head(pieces), normalizedParams),
                Tail(pieces), normalizedParams)

\* The threshold test made strict.
RemnantKept_Strict(remnantMm, normalizedParams) == remnantMm > normalizedParams.minRemnantMm

RemnantKept(remnantMm, normalizedParams) == remnantMm >= normalizedParams.minRemnantMm

\* The allocation whose usedMm counts the pieces without allowance and kerf.
ToAllocation_UsedIsPieces(bar, normalizedParams) ==
  [stock |-> [lengthMm |-> bar.originalMm, sourceId |-> bar.sourceId],
   cuts |-> bar.cuts,
   usedMm |-> SeqSum([j \in 1..Len(bar.cuts) |-> bar.cuts[j].pieceMm]),
   remnantMm |-> bar.remainingMm,
   remnantKept |-> RemnantKept(bar.remainingMm, normalizedParams)]

ToAllocation(bar, normalizedParams) ==
  [stock |-> [lengthMm |-> bar.originalMm, sourceId |-> bar.sourceId],
   cuts |-> bar.cuts,
   usedMm |-> bar.originalMm - bar.remainingMm,
   remnantMm |-> bar.remainingMm,
   remnantKept |-> RemnantKept(bar.remainingMm, normalizedParams)]

TotalWasteMm(allocations) ==
  SeqSum([i \in 1..Len(allocations) |->
            IF allocations[i].remnantKept THEN 0 ELSE allocations[i].remnantMm])

\* The early return for a longest piece no bar can hold.
\* The early return reporting every piece as missing.
ShortCircuitResult_AllMissing(pieces, longestPiece, reason) ==
  [status |-> "FAIL",
   cutList |-> summarizePieces(pieces),
   allocations |-> <<>>,
   shortage |-> <<[pieceMm |-> longestPiece,
                   missingCount |-> Len(pieces),
                   reason |-> reason]>>,
   stats |-> [totalPieces |-> Len(pieces), totalUsedStocks |-> 0, totalWasteMm |-> 0]]

ShortCircuitResult(pieces, longestPiece, reason) ==
  [status |-> "FAIL",
   cutList |-> summarizePieces(pieces),
   allocations |-> <<>>,
   shortage |-> <<[pieceMm |-> longestPiece,
                   missingCount |-> countOf(pieces, longestPiece),
                   reason |-> reason]>>,
   stats |-> [totalPieces |-> Len(pieces), totalUsedStocks |-> 0, totalWasteMm |-> 0]]

\* The greedy pass reporting FAIL for every shortage.
GreedyResult_NeverPartial(inventoryItems, pieces, normalizedParams) ==
  LET final == PlaceAll([bars |-> expandInventory(inventoryItems),
                         shortageMap |-> <<>>], pieces, normalizedParams)
      used == SelectSeq(final.bars, LAMBDA bar : Len(bar.cuts) > 0)
      allocations == [i \in 1..Len(used) |-> ToAllocation(used[i], normalizedParams)]
      keys == KeysDesc(DOMAIN final.shortageMap)
      shortage == [i \in 1..Len(keys) |->
                     [pieceMm |-> keys[i],
                      missingCount |-> final.shortageMap[keys[i]],
                      reason |-> "INSUFFICIENT_STOCK_AFTER_ALLOCATION"]]
  IN [status |-> IF Len(shortage) = 0 THEN "SUCCESS" ELSE "FAIL",
      cutList |-> summarizePieces(pieces),
      allocations |-> allocations,
      shortage |-> shortage,
      stats |-> [totalPieces |-> Len(pieces),
                 totalUsedStocks |-> Len(allocations),
                 totalWasteMm |-> TotalWasteMm(allocations)]]

\* The greedy pass giving up with an error when a piece is left over.
GreedyResult_ThrowsOnShortage(inventoryItems, pieces, normalizedParams) ==
  LET final == PlaceAll([bars |-> expandInventory(inventoryItems),
                         shortageMap |-> <<>>], pieces, normalizedParams)
      used == SelectSeq(final.bars, LAMBDA bar : Len(bar.cuts) > 0)
      allocations == [i \in 1..Len(used) |-> ToAllocation(used[i], normalizedParams)]
      keys == KeysDesc(DOMAIN final.shortageMap)
      shortage == [i \in 1..Len(keys) |->
                     [pieceMm |-> keys[i],
                      missingCount |-> final.shortageMap[keys[i]],
                      reason |-> "INSUFFICIENT_STOCK_AFTER_ALLOCATION"]]
  IN [status |-> IF Len(shortage) = 0 THEN "SUCCESS" ELSE "ERROR",
      cutList |-> summarizePieces(pieces),
      allocations |-> allocations,
      shortage |-> shortage,
      stats |-> [totalPieces |-> Len(pieces),
                 totalUsedStocks |-> Len(allocations),
                 totalWasteMm |-> TotalWasteMm(allocations)]]

\* The greedy pass listing its shortage shortest first.
GreedyResult_AscendingShortage(inventoryItems, pieces, normalizedParams) ==
  LET final == PlaceAll([bars |-> expandInventory(inventoryItems),
                         shortageMap |-> <<>>], pieces, normalizedParams)
      used == SelectSeq(final.bars, LAMBDA bar : Len(bar.cuts) > 0)
      allocations == [i \in 1..Len(used) |-> ToAllocation(used[i], normalizedParams)]
      keys == KeysAsc(DOMAIN final.shortageMap)
      shortage == [i \in 1..Len(keys) |->
                     [pieceMm |-> keys[i],
                      missingCount |-> final.shortageMap[keys[i]],
                      reason |-> "INSUFFICIENT_STOCK_AFTER_ALLOCATION"]]
  IN [status |-> IF Len(shortage) = 0 THEN "SUCCESS"
                 ELSE IF Len(allocations) > 0 THEN "PARTIAL" ELSE "FAIL",
      cutList |-> summarizePieces(pieces),
      allocations |-> allocations,
      shortage |-> shortage,
      stats |-> [totalPieces |-> Len(pieces),
                 totalUsedStocks |-> Len(allocations),
                 totalWasteMm |-> TotalWasteMm(allocations)]]

GreedyResult(inventoryItems, pieces, normalizedParams) ==
  LET final == PlaceAll([bars |-> expandInventory(inventoryItems),
                         shortageMap |-> <<>>], pieces, normalizedParams)
      used == SelectSeq(final.bars, LAMBDA bar : Len(bar.cuts) > 0)
      allocations == [i \in 1..Len(used) |-> ToAllocation(used[i], normalizedParams)]
      keys == KeysDesc(DOMAIN final.shortageMap)
      shortage == [i \in 1..Len(keys) |->
                     [pieceMm |-> keys[i],
                      missingCount |-> final.shortageMap[keys[i]],
                      reason |-> "INSUFFICIENT_STOCK_AFTER_ALLOCATION"]]
  IN [status |-> IF Len(shortage) = 0 THEN "SUCCESS"
                 ELSE IF Len(allocations) > 0 THEN "PARTIAL" ELSE "FAIL",
      cutList |-> summarizePieces(pieces),
      allocations |-> allocations,
      shortage |-> shortage,
      stats |-> [totalPieces |-> Len(pieces),
                 totalUsedStocks |-> Len(allocations),
                 totalWasteMm |-> TotalWasteMm(allocations)]]

\* The classification with the allowance test made strict.
buildPlanFromPieces_StrictReason(inventoryItems, pieces, normalizedParams) ==
  IF Len(pieces) = 0
  THEN [status |-> "SUCCESS", cutList |-> <<>>, allocations |-> <<>>,
        shortage |-> <<>>,
        stats |-> [totalPieces |-> 0, totalUsedStocks |-> 0, totalWasteMm |-> 0]]
  ELSE LET longestPiece == pieces[1]
           longestWithAllowance == longestPiece + normalizedParams.allowanceMm
           longestEffective == longestWithAllowance + normalizedParams.kerfMm
           maxStock == MaxStock(inventoryItems)
       IN IF longestEffective > maxStock
          THEN ShortCircuitResult(pieces, longestPiece,
                 IF longestWithAllowance < maxStock
                 THEN "KERF_ALLOWANCE_MAKES_IT_IMPOSSIBLE"
                 ELSE "NO_STOCK_LONG_ENOUGH")
          ELSE GreedyResult(inventoryItems, pieces, normalizedParams)

buildPlanFromPieces(inventoryItems, pieces, normalizedParams) ==
  IF Len(pieces) = 0
  THEN [status |-> "SUCCESS", cutList |-> <<>>, allocations |-> <<>>,
        shortage |-> <<>>,
        stats |-> [totalPieces |-> 0, totalUsedStocks |-> 0, totalWasteMm |-> 0]]
  ELSE LET longestPiece == pieces[1]
           longestWithAllowance == longestPiece + normalizedParams.allowanceMm
           longestEffective == longestWithAllowance + normalizedParams.kerfMm
           maxStock == MaxStock(inventoryItems)
       IN IF longestEffective > maxStock
          THEN ShortCircuitResult(pieces, longestPiece,
                 IF longestWithAllowance <= maxStock
                 THEN "KERF_ALLOWANCE_MAKES_IT_IMPOSSIBLE"
                 ELSE "NO_STOCK_LONG_ENOUGH")
          ELSE GreedyResult(inventoryItems, pieces, normalizedParams)

\* The filter letting pieces of length 0 through.
NormalizedPieces_KeepsZero(piecesMm) ==
  SortDesc(SelectSeq([i \in 1..Len(piecesMm) |-> toNonNegativeInt(piecesMm[i])],
                    LAMBDA piece : piece >= 0))

\* piecesMm.map(toNonNegativeInt).filter(piece > 0), sorted descending.
NormalizedPieces(piecesMm) ==
  SortDesc(SelectSeq([i \in 1..Len(piecesMm) |-> toNonNegativeInt(piecesMm[i])],
                    LAMBDA piece : piece > 0))

buildCutPlanBFDForPieces(inventoryItems, piecesMm, params) ==
  buildPlanFromPieces(inventoryItems, NormalizedPieces(piecesMm),
                      normalizePlanParams(params))

buildCutPlanBFD(inventoryItems, orderLines, params) ==
  buildCutPlanBFDForPieces(inventoryItems,
                           AsNumbers(expandOrderToPieces(orderLines)), params)

-----------------------------------------------------------------------------
(* Bounds of the model *)

MaxItems == 2      \* inventory items handed to one engine call
MaxQty == 2        \* quantity of one such inventory item
MaxPieces == 3     \* pieces handed to one buildCutPlanBFDForPieces call
MaxLines == 2      \* order lines handed to one buildCutPlanBFD call
MaxLineQty == 2    \* quantity of one such order line
MaxPlans == 2      \* plans staged in one behaviour
MaxCalls == 2      \* commitPlan invocations in one behaviour
MaxAdds == 1       \* addInventory calls in one behaviour

-----------------------------------------------------------------------------
(* apps/api/src/db/memory-store.ts: the ledger *)

Classes == {"Komarnici", "Prozorske daske"}
DEFAULT_INVENTORY_CLASS == "Komarnici"

DEFAULT_INVENTORY ==
  <<[inventoryClass |-> "Komarnici", lengthMm |-> 3000, qty |-> 5],
    [inventoryClass |-> "Komarnici", lengthMm |-> 5000, qty |-> 3],
    [inventoryClass |-> "Komarnici", lengthMm |-> 7000, qty |-> 6],
    [inventoryClass |-> "Prozorske daske", lengthMm |-> 10000, qty |-> 10],
    [inventoryClass |-> "Prozorske daske", lengthMm |-> 20000, qty |-> 15]>>

normalizeInventoryClass(value) ==
  IF value \in Classes THEN value ELSE DEFAULT_INVENTORY_CLASS

\* `${inventoryClass}:${lengthMm}`
toInventoryKey(lengthMm, inventoryClass) == <<inventoryClass, lengthMm>>

RowKey(row) == toInventoryKey(row.lengthMm, row.inventoryClass)

\* inventoryKeyIndex.get(key) after repairLegacyInventory has rebuilt the
\* index: the first row of that key in Map order (ascending id); 0 if none.
IndexGet(inv, key) ==
  LET ids == {id \in DOMAIN inv : RowKey(inv[id]) = key}
  IN IF ids = {} THEN 0 ELSE SetMin(ids)

PutRow(inv, row) == [id \in DOMAIN inv \cup {row.id} |-> IF id = row.id THEN row ELSE inv[id]]

\* The addition that never looks the key up: always a new row.
addInventoryInternal_AlwaysNewRow(led, lengthMm, qty, inventoryClass) ==
  [inventory |-> PutRow(led.inventory,
                        [id |-> led.nextInventoryId,
                         inventoryClass |-> normalizeInventoryClass(inventoryClass),
                         lengthMm |-> lengthMm, qty |-> qty]),
   nextInventoryId |-> led.nextInventoryId + 1]

\* addInventoryInternal on led = [inventory, nextInventoryId].
addInventoryInternal(led, lengthMm, qty, inventoryClass) ==
  LET normalizedClass == normalizeInventoryClass(inventoryClass)
      existingId == IndexGet(led.inventory, toInventoryKey(lengthMm, normalizedClass))
  IN IF existingId # 0
     THEN [led EXCEPT !.inventory[existingId].qty = @ + qty]
     ELSE [inventory |-> PutRow(led.inventory,
                                [id |-> led.nextInventoryId,
                                 inventoryClass |-> normalizedClass,
                                 lengthMm |-> lengthMm, qty |-> qty]),
           nextInventoryId |-> led.nextInventoryId + 1]

\* migrate() on an empty store: the default rows, added in order.
RECURSIVE AddAll(_, _)
AddAll(led, items) ==
  IF items = <<>> THEN led
  ELSE AddAll(addInventoryInternal(led, Head(items).lengthMm, Head(items).qty,
                                   Head(items).inventoryClass), Tail(items))

FreshLedger == AddAll([inventory |-> <<>>, nextInventoryId |-> 1], DEFAULT_INVENTORY)

\* A ledger persisted by earlier runs: the default rows used up, two
\* Komarnici rows and one Prozorske daske row left.
WornLedger ==
  AddAll([inventory |-> [id \in DOMAIN FreshLedger.inventory |->
                           [FreshLedger.inventory[id] EXCEPT !.qty = 0]],
          nextInventoryId |-> FreshLedger.nextInventoryId],
         <<[inventoryClass |-> "Komarnici", lengthMm |-> 500, qty |-> 1],
           [inventoryClass |-> "Komarnici", lengthMm |-> 2000, qty |-> 2],
           [inventoryClass |-> "Prozorske daske", lengthMm |-> 1000, qty |-> 1]>>)

\* Another such ledger: one short and one long Komarnici bar left.
SplitLedger ==
  AddAll([inventory |-> [id \in DOMAIN FreshLedger.inventory |->
                           [FreshLedger.inventory[id] EXCEPT !.qty = 0]],
          nextInventoryId |-> FreshLedger.nextInventoryId],
         <<[inventoryClass |-> "Komarnici", lengthMm |-> 1700, qty |-> 1],
           [inventoryClass |-> "Komarnici", lengthMm |-> 4200, qty |-> 1]>>)

InitialLedgers == {FreshLedger, WornLedger, SplitLedger}

ClassRank(c) == IF c = "Komarnici" THEN 1 ELSE 2

\* (a, b) => classOrder || a.lengthMm - b.lengthMm
RowBefore(a, b) ==
  \/ ClassRank(a.inventoryClass) < ClassRank(b.inventoryClass)
  \/ /\ a.inventoryClass = b.inventoryClass
     /\ \/ a.lengthMm < b.lengthMm
        \/ a.lengthMm = b.lengthMm /\ a.id <= b.id

RECURSIVE SortRows(_)
SortRows(rows) ==
  IF rows = {} THEN <<>>
  ELSE LET first == CHOOSE a \in rows : \A b \in rows : RowBefore(a, b)
       IN <<first>> \o SortRows(rows \ {first})

\* The repair that files every row under the default class.
repairLegacyInventory_Defaults(inv) ==
  [id \in DOMAIN inv |-> [inv[id] EXCEPT !.inventoryClass = DEFAULT_INVENTORY_CLASS]]

\* repairLegacyInventory(): item.inventoryClass = normalizeInventoryClass(...)
\* on every row (the key index it rebuilds is derived from the rows).
repairLegacyInventory(inv) ==
  [id \in DOMAIN inv |->
     [inv[id] EXCEPT !.inventoryClass = normalizeInventoryClass(@)]]

\* listInventory(): the rows with qty > 0, by class and then length.
listInventory(inv) == SortRows({inv[id] : id \in {i \in DOMAIN inv : inv[i].qty > 0}})

\* The consumption counted in cuts instead of bars.
RECURSIVE summarizeConsumption_Cuts(_)
summarizeConsumption_Cuts(allocations) ==
  IF allocations = <<>> THEN <<>>
  ELSE LET rest == summarizeConsumption_Cuts(SubSeq(allocations, 1, Len(allocations) - 1))
           sourceId == allocations[Len(allocations)].stock.sourceId
           cuts == Len(allocations[Len(allocations)].cuts)
           at == {i \in 1..Len(rest) : rest[i].sourceId = sourceId}
       IN IF at = {} THEN Append(rest, [sourceId |-> sourceId, count |-> cuts])
          ELSE [rest EXCEPT ![SetMin(at)].count = @ + cuts]

\* Map<sourceId, count> in insertion order, as a sequence of entries.
RECURSIVE summarizeConsumption(_)
summarizeConsumption(allocations) ==
  IF allocations = <<>> THEN <<>>
  ELSE LET rest == summarizeConsumption(SubSeq(allocations, 1, Len(allocations) - 1))
           sourceId == allocations[Len(allocations)].stock.sourceId
           at == {i \in 1..Len(rest) : rest[i].sourceId = sourceId}
       IN IF at = {} THEN Append(rest, [sourceId |-> sourceId, count |-> 1])
          ELSE [rest EXCEPT ![SetMin(at)].count = @ + 1]

\* The remnants summarized whether kept or not.
RECURSIVE summarizeRemnants_All(_, _)
summarizeRemnants_All(allocations, classOf) ==
  IF allocations = <<>> THEN <<>>
  ELSE LET rest == summarizeRemnants_All(SubSeq(allocations, 1, Len(allocations) - 1), classOf)
           allocation == allocations[Len(allocations)]
           inventoryClass == classOf[allocation.stock.sourceId]
           at == {i \in 1..Len(rest) :
                    /\ rest[i].inventoryClass = inventoryClass
                    /\ rest[i].lengthMm = allocation.remnantMm}
       IN IF at = {}
          THEN Append(rest, [inventoryClass |-> inventoryClass,
                             lengthMm |-> allocation.remnantMm, qty |-> 1])
          ELSE [rest EXCEPT ![SetMin(at)].qty = @ + 1]

\* Map<key, {inventoryClass, lengthMm, qty}> in insertion order; classOf is
\* the class of each source row (resolveInventoryClass / sourceClassById).
RECURSIVE summarizeRemnants(_, _)
summarizeRemnants(allocations, classOf) ==
  IF allocations = <<>> THEN <<>>
  ELSE LET rest == summarizeRemnants(SubSeq(allocations, 1, Len(allocations) - 1), classOf)
           allocation == allocations[Len(allocations)]
           inventoryClass == classOf[allocation.stock.sourceId]
           at == {i \in 1..Len(rest) :
                    /\ rest[i].inventoryClass = inventoryClass
                    /\ rest[i].lengthMm = allocation.remnantMm}
       IN IF ~allocation.remnantKept THEN rest
          ELSE IF at = {}
               THEN Append(rest, [inventoryClass |-> inventoryClass,
                                  lengthMm |-> allocation.remnantMm, qty |-> 1])
               ELSE [rest EXCEPT ![SetMin(at)].qty = @ + 1]

ClassOfRow(inv) == [id \in DOMAIN inv |-> normalizeInventoryClass(inv[id].inventoryClass)]

\* The check made for the first required row only.
HasConflict_FirstOnly(inv, required) ==
  /\ Len(required) >= 1
  /\ \/ required[1].sourceId \notin DOMAIN inv
     \/ inv[required[1].sourceId].qty < required[1].count

\* The check refusing a plan that takes a row's last bar.
HasConflict_AtEqual(inv, required) ==
  \E k \in 1..Len(required) :
     \/ required[k].sourceId \notin DOMAIN inv
     \/ inv[required[k].sourceId].qty <= required[k].count

\* The first loop of commitPlan: some required row is missing or too low.
HasConflict(inv, required) ==
  \E k \in 1..Len(required) :
     \/ required[k].sourceId \notin DOMAIN inv
     \/ inv[required[k].sourceId].qty < required[k].count

\* The second loop of commitPlan: stock.qty -= requiredCount for each entry.
RequiredOf(required, id) ==
  LET at == {k \in 1..Len(required) : required[k].sourceId = id}
  IN IF at = {} THEN 0 ELSE required[SetMin(at)].count

Decrement(inv, required) ==
  [id \in DOMAIN inv |-> [inv[id] EXCEPT !.qty = @ - RequiredOf(required, id)]]

-----------------------------------------------------------------------------
(* The /orders/plan route and PlanStore.createPlan *)

\* contracts mergePlanParams: the request's patch over the defaults.
mergePlanParams(patch) ==
  [kerfMm |-> IF "kerfMm" \in DOMAIN patch
              THEN patch.kerfMm ELSE DEFAULT_PLAN_PARAMS.kerfMm,
   allowanceMm |-> IF "allowanceMm" \in DOMAIN patch
                   THEN patch.allowanceMm ELSE DEFAULT_PLAN_PARAMS.allowanceMm,
   minRemnantMm |-> IF "minRemnantMm" \in DOMAIN patch
                    THEN patch.minRemnantMm ELSE DEFAULT_PLAN_PARAMS.minRemnantMm,
   toleranceMm |-> IF "toleranceMm" \in DOMAIN patch
                   THEN patch.toleranceMm ELSE DEFAULT_PLAN_PARAMS.toleranceMm]

\* Math.max(0, Math.round(value)), which is NaN for a NaN value.
MaxRound(value) == IF value.kind = "nan" THEN NaN ELSE Num(toNonNegativeInt(value))

\* routes/orders expandOrderWidthsToPieces: the width, 2 * qty times (no
\* time at all for a NaN qty, whose loop test i < 2 * qty is false).
LineWidths(line) ==
  LET widthMm == MaxRound(line.widthMm)
      qty == MaxRound(line.qty)
  IN Repeat(<<widthMm>>, IF qty.kind = "nan" THEN 0 ELSE 2 * qty.n)

RECURSIVE expandOrderWidthsToPieces(_)
expandOrderWidthsToPieces(orderLines) ==
  IF orderLines = <<>> THEN <<>>
  ELSE LineWidths(Head(orderLines)) \o expandOrderWidthsToPieces(Tail(orderLines))

\* A ledger row as the engine's InventoryItem.
ToItem(row) == [id |-> row.id, lengthMm |-> Num(row.lengthMm), qty |-> Num(row.qty)]

\* The plan the route computes for a request against the ledger it reads.
PlanResultFor(inv, req) ==
  LET params == mergePlanParams(req.params)
      rows == SelectSeq(listInventory(inv),
                        LAMBDA item : item.inventoryClass = req.inventoryClass)
      inventoryItems == [i \in 1..Len(rows) |-> ToItem(rows[i])]
  IN IF req.widthOnly
     THEN buildCutPlanBFDForPieces(inventoryItems,
                                   expandOrderWidthsToPieces(req.orderLines), params)
     ELSE buildCutPlanBFD(inventoryItems, req.orderLines, params)

\* The plan record created in another state.
NewPlan_Expired(req, result) ==
  [status |-> "EXPIRED", params |-> mergePlanParams(req.params),
   orderLines |-> req.orderLines, result |-> result]

\* createPlan: the stored plan record (its identifier is its index in plans).
NewPlan(req, result) ==
  [status |-> "PLANNED", params |-> mergePlanParams(req.params),
   orderLines |-> req.orderLines, result |-> result]

Line(h, w, q) == [heightMm |-> Num(h), widthMm |-> Num(w), qty |-> Num(q)]

\* The requests the model sends to POST /orders/plan.
PlanRequests ==
  { [inventoryClass |-> "Komarnici", widthOnly |-> TRUE,
     params |-> [kerfMm |-> 0, allowanceMm |-> 0],
     orderLines |-> <<Line(1500, 1500, 1)>>],
    [inventoryClass |-> "Komarnici", widthOnly |-> TRUE,
     params |-> [kerfMm |-> 0, allowanceMm |-> 0],
     orderLines |-> <<Line(500, 500, 1)>>],
    [inventoryClass |-> "Komarnici", widthOnly |-> FALSE,
     params |-> [kerfMm |-> 0, allowanceMm |-> 0],
     orderLines |-> <<Line(500, 1500, 1)>>],
    [inventoryClass |-> "Prozorske daske", widthOnly |-> TRUE,
     params |-> [kerfMm |-> 0, allowanceMm |-> 0, minRemnantMm |-> 0],
     orderLines |-> <<Line(500, 500, 1)>>] }

\* The bodies the model sends to POST /inventory/add.
AddRequests ==
  { [inventoryClass |-> "Komarnici", lengthMm |-> 2000, qty |-> 1],
    [inventoryClass |-> "Prozorske daske", lengthMm |-> 4000, qty |-> 2] }

-----------------------------------------------------------------------------
(* commitPlan invocations *)

CallSlots == 1..MaxCalls

IdleTask ==
  [pc |-> "idle", planId |-> 0, outcome |-> "none",
   remnants |-> <<>>, step |-> 0, writes |-> <<>>,
   decremented |-> FALSE, delta |-> <<>>,
   seen |-> [inventory |-> <<>>, adds |-> 0]]

\* The ledger rows and the count of additions as they are when a call starts.
Snapshot == [inventory |-> inventory, adds |-> adds]

\* What a call has added to (positive) or taken from (negative) each ledger
\* row so far: delta, plus the change from ledger inv to ledger inv2.
DeltaAt(delta, id) == IF id \in DOMAIN delta THEN delta[id] ELSE 0

DeltaAfter(delta, inv, inv2) ==
  LET d(id) == DeltaAt(delta, id) + inv2[id].qty
               - (IF id \in DOMAIN inv THEN inv[id].qty ELSE 0)
  IN [id \in {i \in DOMAIN inv2 : d(i) # 0} |-> d(id)]

Done(task, outcome) == [task EXCEPT !.pc = "done", !.outcome = outcome]

\* The missing plan taken for a committed one.
NotFound_Ignored(task) == Done(task, "ALREADY_COMMITTED")

\* if (!plan) throw new NotFoundError("Plan not found")
NotFound(task) == Done(task, "NotFoundError")

\* The status assignment left out.
SetCommitted_Forgets(ps, planId) == ps

\* The commit that empties the plan's allocations once they are applied.
SetCommitted_DropsAllocations(ps, planId) ==
  [ps EXCEPT ![planId].status = "COMMITTED", ![planId].result.allocations = <<>>]

SetCommitted(ps, planId) == [ps EXCEPT ![planId].status = "COMMITTED"]

\* The plan dropped when its commit finds a row short.
ConflictThrown_ExpiresPlan(same, task) ==
  [same EXCEPT !.task = Done(task, "ConflictError"),
               !.plans[task.planId].status = "EXPIRED"]

\* throw new ConflictError(...): nothing is written, the plan stays as it is.
ConflictThrown(same, task) == [same EXCEPT !.task = Done(task, "ConflictError")]

\* MemoryStore.commitPlan from its call to its first await (or its throw):
\* the state it leaves, as [inventory, nextInventoryId, plans, task].
MemCommitEntry(task, planId) ==
  LET same == [inventory |-> inventory, nextInventoryId |-> nextInventoryId,
               plans |-> plans, task |-> task]
  IN IF planId \notin 1..Len(plans)
     THEN [same EXCEPT !.task = NotFound(task)]
     ELSE IF plans[planId].status = "COMMITTED"
     THEN [same EXCEPT !.task = Done(task, "ALREADY_COMMITTED")]
     ELSE LET allocations == plans[planId].result.allocations
              requiredBySource == summarizeConsumption(allocations)
          IN IF HasConflict(inventory, requiredBySource)
             THEN ConflictThrown(same, task)
             ELSE LET taken == Decrement(inventory, requiredBySource)
                      remnants == summarizeRemnants(allocations, ClassOfRow(taken))
                      led == [inventory |-> taken, nextInventoryId |-> nextInventoryId]
                  IN IF remnants = <<>>
                     THEN [inventory |-> taken, nextInventoryId |-> nextInventoryId,
                           plans |-> SetCommitted(plans, planId),
                           task |-> [task EXCEPT !.pc = "persist", !.decremented = TRUE]]
                     ELSE LET led2 == addInventoryInternal(led, remnants[1].lengthMm,
                                        remnants[1].qty, remnants[1].inventoryClass)
                          IN [inventory |-> led2.inventory,
                              nextInventoryId |-> led2.nextInventoryId,
                              plans |-> plans,
                              task |-> [task EXCEPT !.pc = "remnants", !.step = 1,
                                                    !.remnants = remnants,
                                                    !.decremented = TRUE]]

MemCommitCall(t, planId) ==
  /\ store = "memory"
  /\ tasks[t].pc = "idle"
  /\ \A u \in 1..(t - 1) : tasks[u].pc # "idle"
  /\ LET task == [tasks[t] EXCEPT !.planId = planId, !.seen = Snapshot]
         next == MemCommitEntry(task, planId)
     IN /\ inventory' = next.inventory
        /\ nextInventoryId' = next.nextInventoryId
        /\ plans' = next.plans
        /\ tasks' = [tasks EXCEPT ![t] =
                       [next.task EXCEPT !.delta =
                          DeltaAfter(task.delta, inventory, next.inventory)]]
  /\ UNCHANGED <<store, adds, engVars, ordVars>>

\* commitPlan resumed after "await this.addInventoryInternal(...)": the next
\* remnant, or, the loop over, plan.status = "COMMITTED" and persistState().
MemCommitResume(t) ==
  /\ store = "memory"
  /\ tasks[t].pc = "remnants"
  /\ LET task == tasks[t]
     IN IF task.step < Len(task.remnants)
        THEN LET remnant == task.remnants[task.step + 1]
                 led == addInventoryInternal(
                          [inventory |-> inventory, nextInventoryId |-> nextInventoryId],
                          remnant.lengthMm, remnant.qty, remnant.inventoryClass)
             IN /\ inventory' = led.inventory
                /\ nextInventoryId' = led.nextInventoryId
                /\ plans' = plans
                /\ tasks' = [tasks EXCEPT ![t] =
                               [task EXCEPT !.step = @ + 1,
                                            !.delta = DeltaAfter(task.delta, inventory,
                                                                 led.inventory)]]
        ELSE /\ plans' = SetCommitted(plans, task.planId)
             /\ tasks' = [tasks EXCEPT ![t].pc = "persist"]
             /\ UNCHANGED <<inventory, nextInventoryId>>
  /\ UNCHANGED <<store, adds, engVars, ordVars>>

\* persistState() has written the state file: commitPlan returns.
MemCommitReturn(t) ==
  /\ store = "memory"
  /\ tasks[t].pc = "persist"
  /\ tasks' = [tasks EXCEPT ![t] = Done(@, "COMMITTED")]
  /\ UNCHANGED <<store, inventory, nextInventoryId, plans, adds, engVars, ordVars>>

\* MemoryStore.addInventory: addInventoryInternal, then persistState().
MemAddInventory(req) ==
  /\ store = "memory"
  /\ adds < MaxAdds
  /\ LET led == addInventoryInternal(
                  [inventory |-> inventory, nextInventoryId |-> nextInventoryId],
                  req.lengthMm, req.qty, req.inventoryClass)
     IN /\ inventory' = led.inventory
        /\ nextInventoryId' = led.nextInventoryId
  /\ adds' = adds + 1
  /\ UNCHANGED <<store, plans, tasks, engVars, ordVars>>

\* POST /orders/plan: listInventory, the engine, createPlan.
\* The route to the end of store.createPlan: listInventory (which, in
\* MemoryStore, first runs repairLegacyInventory over the rows), the engine
\* on the rows of the class, and the plan stored as PLANNED.
PlanOrder(req) ==
  /\ Len(plans) < MaxPlans
  /\ LET rows == IF store = "memory" THEN repairLegacyInventory(inventory)
                 ELSE inventory
     IN /\ inventory' = rows
        /\ plans' = Append(plans, NewPlan(req, PlanResultFor(rows, req)))
  /\ UNCHANGED <<store, nextInventoryId, tasks, adds, engVars, ordVars>>

-----------------------------------------------------------------------------
(* apps/api/src/db/postgres-store.ts: commitPlan as one transaction.  A      *)
(* task's writes are the inventory rows its transaction has updated or      *)
(* inserted and not yet committed; it holds the row lock of each of them    *)
(* and, from its SELECT ... FOR UPDATE on, the lock of its plan row.        *)

InTransaction(task) == task.pc \in {"update", "insert", "finish"}

PlanLockedByOther(t, planId) ==
  \E u \in CallSlots \ {t} : InTransaction(tasks[u]) /\ tasks[u].planId = planId

RowLockedByOther(t, id) ==
  \E u \in CallSlots \ {t} : id \in DOMAIN tasks[u].writes

KeyLockedByOther(t, key) ==
  \E u \in CallSlots \ {t} :
     \E id \in DOMAIN tasks[u].writes : RowKey(tasks[u].writes[id]) = key

\* The table as a transaction sees it: its own writes over the committed rows.
Visible(writes) ==
  [id \in DOMAIN inventory \cup DOMAIN writes |->
     IF id \in DOMAIN writes THEN writes[id] ELSE inventory[id]]

\* The error rethrown with no ROLLBACK.
Rollback_KeepsWrites(task, error) == [task EXCEPT !.pc = "done", !.outcome = error]

\* catch (error) { ROLLBACK; throw error }: the writes are dropped.
Rollback(task, error) ==
  [task EXCEPT !.pc = "done", !.outcome = error, !.writes = <<>>,
               !.decremented = FALSE]

\* After the last UPDATE of the consumption loop: summarizeRemnants, then the
\* INSERT loop, or straight to UPDATE plans and COMMIT.
AfterUpdates(task, allocations) ==
  LET remnants == summarizeRemnants(allocations, ClassOfRow(task.writes))
  IN [task EXCEPT !.remnants = remnants, !.step = 0,
                  !.pc = IF remnants = <<>> THEN "finish" ELSE "insert"]

\* pool.connect(), BEGIN and SELECT status, result_json ... FOR UPDATE, which
\* waits while another transaction holds the plan row.
PgCommitCall(t, planId) ==
  /\ store = "postgres"
  /\ tasks[t].pc = "idle"
  /\ \A u \in 1..(t - 1) : tasks[u].pc # "idle"
  /\ ~PlanLockedByOther(t, planId)
  /\ LET task == [tasks[t] EXCEPT !.planId = planId, !.seen = Snapshot]
     IN tasks' = [tasks EXCEPT ![t] =
          IF planId \notin 1..Len(plans) THEN Rollback(task, "NotFoundError")
          ELSE IF plans[planId].status = "COMMITTED"
          THEN Done(task, "ALREADY_COMMITTED")
          ELSE IF plans[planId].result.allocations = <<>>
          THEN AfterUpdates(task, <<>>)
          ELSE [task EXCEPT !.pc = "update", !.step = 0]]
  /\ UNCHANGED <<store, inventory, nextInventoryId, plans, adds, engVars, ordVars>>

\* UPDATE inventory SET qty = qty - $2 WHERE id = $1 AND qty >= $2 for the
\* next entry of consumptionBySource; it waits for the row's lock.
PgUpdate(t) ==
  /\ store = "postgres"
  /\ tasks[t].pc = "update"
  /\ LET task == tasks[t]
         allocations == plans[task.planId].result.allocations
         consumptionBySource == summarizeConsumption(allocations)
         entry == consumptionBySource[task.step + 1]
         id == entry.sourceId
     IN /\ ~RowLockedByOther(t, id)
        /\ tasks' = [tasks EXCEPT ![t] =
             IF id \in DOMAIN inventory /\ inventory[id].qty >= entry.count
             THEN LET upd == [task EXCEPT
                                !.writes = PutRow(task.writes,
                                             [inventory[id] EXCEPT !.qty = @ - entry.count]),
                                !.step = @ + 1, !.decremented = TRUE]
                  IN IF upd.step = Len(consumptionBySource)
                     THEN AfterUpdates(upd, allocations) ELSE upd
             ELSE Rollback(task, "ConflictError")]
  /\ UNCHANGED <<store, inventory, nextInventoryId, plans, adds, engVars, ordVars>>

\* INSERT INTO inventory ... ON CONFLICT (inventory_class, length_mm) DO
\* UPDATE SET qty = inventory.qty + EXCLUDED.qty on the table tbl: the row
\* written and the id sequence, or an error when CHECK (length_mm > 0) fails.
Upsert(tbl, nextId, inventoryClass, lengthMm, qty) ==
  LET existingId == IndexGet(tbl, toInventoryKey(lengthMm, inventoryClass))
  IN IF existingId # 0
     THEN [ok |-> TRUE, row |-> [tbl[existingId] EXCEPT !.qty = @ + qty],
           nextInventoryId |-> nextId]
     ELSE [ok |-> lengthMm > 0,
           row |-> [id |-> nextId, inventoryClass |-> inventoryClass,
                    lengthMm |-> lengthMm, qty |-> qty],
           nextInventoryId |-> nextId + 1]

\* The INSERT of the next remnant; it waits for a row of that key that
\* another transaction has locked or inserted.
PgInsert(t) ==
  /\ store = "postgres"
  /\ tasks[t].pc = "insert"
  /\ LET task == tasks[t]
         remnant == task.remnants[task.step + 1]
         up == Upsert(Visible(task.writes), nextInventoryId,
                      remnant.inventoryClass, remnant.lengthMm, remnant.qty)
     IN /\ ~KeyLockedByOther(t, toInventoryKey(remnant.lengthMm, remnant.inventoryClass))
        /\ nextInventoryId' = up.nextInventoryId
        /\ tasks' = [tasks EXCEPT ![t] =
             IF up.ok
             THEN [task EXCEPT !.writes = PutRow(task.writes, up.row),
                               !.step = @ + 1,
                               !.pc = IF task.step + 1 = Len(task.remnants)
                                      THEN "finish" ELSE "insert"]
             ELSE Rollback(task, "DatabaseError")]
  /\ UNCHANGED <<store, inventory, plans, adds, engVars, ordVars>>

\* UPDATE plans SET status = 'COMMITTED' and COMMIT: the writes become the
\* committed rows and every lock is released.
PgFinish(t) ==
  /\ store = "postgres"
  /\ tasks[t].pc = "finish"
  /\ inventory' = Visible(tasks[t].writes)
  /\ plans' = SetCommitted(plans, tasks[t].planId)
  /\ tasks' = [tasks EXCEPT ![t] =
                 [Done(@, "COMMITTED") EXCEPT
                    !.writes = <<>>,
                    !.delta = DeltaAfter(tasks[t].delta, inventory,
                                         Visible(tasks[t].writes))]]
  /\ UNCHANGED <<store, nextInventoryId, adds, engVars, ordVars>>

\* The transactions whose locks the next statement of task t waits for.
WaitsFor(t) ==
  LET task == tasks[t]
  IN IF task.pc = "update"
     THEN LET id == summarizeConsumption(
                      plans[task.planId].result.allocations)[task.step + 1].sourceId
          IN {u \in CallSlots \ {t} : id \in DOMAIN tasks[u].writes}
     ELSE IF task.pc = "insert"
     THEN LET remnant == task.remnants[task.step + 1]
              key == toInventoryKey(remnant.lengthMm, remnant.inventoryClass)
          IN {u \in CallSlots \ {t} :
                \E id \in DOMAIN tasks[u].writes : RowKey(tasks[u].writes[id]) = key}
     ELSE {}

RECURSIVE WaitChain(_, _)
WaitChain(S, n) ==
  IF n = 0 THEN S
  ELSE WaitChain(S \cup UNION {WaitsFor(u) : u \in S}, n - 1)

\* The database's deadlock detector: a transaction in a cycle of lock waits
\* is aborted; its query throws and the catch block rolls back.
PgDeadlock(t) ==
  /\ store = "postgres"
  /\ WaitsFor(t) # {}
  /\ t \in WaitChain(WaitsFor(t), MaxCalls)
  /\ tasks' = [tasks EXCEPT ![t] = Rollback(@, "DatabaseError")]
  /\ UNCHANGED <<store, inventory, nextInventoryId, plans, adds, engVars, ordVars>>

\* PostgresStore.addInventory: one INSERT ... ON CONFLICT DO UPDATE statement.
PgAddInventory(req) ==
  /\ store = "postgres"
  /\ adds < MaxAdds
  /\ \A u \in CallSlots :
       \A id \in DOMAIN tasks[u].writes :
          RowKey(tasks[u].writes[id]) # toInventoryKey(req.lengthMm, req.inventoryClass)
  /\ LET up == Upsert(inventory, nextInventoryId, req.inventoryClass,
                      req.lengthMm, req.qty)
     IN /\ up.ok
        /\ inventory' = PutRow(inventory, up.row)
        /\ nextInventoryId' = up.nextInventoryId
  /\ adds' = adds + 1
  /\ UNCHANGED <<store, plans, tasks, engVars, ordVars>>

-----------------------------------------------------------------------------
(* The store: construction, and the calls its routes make *)

NoEngineCall == [fn |-> "none"]

\* The two routes that call acceptStoredOrder.
AcceptCallers == {"accept-all", "accept"}

IdleAccept ==
  [pc |-> "idle", orderId |-> 0, status |-> "none", rows |-> <<>>,
   planId |-> 0, outcome |-> "none"]

IdleBatch == [pc |-> "idle", pending |-> <<>>, results |-> <<>>]

\* No order queued and no acceptance under way.
NoOrders ==
  /\ orders = <<>>
  /\ accepts = [c \in AcceptCallers |-> IdleAccept]
  /\ batch = IdleBatch

Init ==
  /\ store \in {"memory", "postgres"}
  /\ \E led \in InitialLedgers :
        /\ inventory = led.inventory
        /\ nextInventoryId = led.nextInventoryId
  /\ plans = <<>>
  /\ tasks = [t \in CallSlots |-> IdleTask]
  /\ adds = 0
  /\ NoOrders
  /\ engInput = NoEngineCall
  /\ engResult = NoEngineCall
  /\ engDone = FALSE

Next ==
  \/ \E req \in PlanRequests : PlanOrder(req)
  \/ \E req \in AddRequests : MemAddInventory(req)
  \/ \E req \in AddRequests : PgAddInventory(req)
  \/ \E t \in CallSlots : \E planId \in 0..Len(plans) : MemCommitCall(t, planId)
  \/ \E t \in CallSlots : MemCommitResume(t)
  \/ \E t \in CallSlots : MemCommitReturn(t)
  \/ \E t \in CallSlots : \E planId \in 0..Len(plans) : PgCommitCall(t, planId)
  \/ \E t \in CallSlots : PgUpdate(t)
  \/ \E t \in CallSlots : PgInsert(t)
  \/ \E t \in CallSlots : PgFinish(t)
  \/ \E t \in CallSlots : PgDeadlock(t)

Spec == Init /\ [][Next]_vars

-----------------------------------------------------------------------------
(* The engine called on its own: one call of buildCutPlanBFDForPieces or    *)
(* buildCutPlanBFD on arguments drawn from bounded sets.                    *)

StockLengths == {4, 6}
PieceValues == {Num(0), Num(1), Num(2), Half(2), Num(5)}
LineValues == {Num(0), Num(2), Num(3), Half(2), NaN}
ParamPatches ==
  {[kerfMm |-> k, allowanceMm |-> a, minRemnantMm |-> m] :
     k \in {0, 1}, a \in {0, 1}, m \in {0, 2}}
  \cup {[toleranceMm |-> 1], [kerfMm |-> 0], [allowanceMm |-> 0, minRemnantMm |-> 0],
        [x \in {} |-> 0]}

InventoryInputs ==
  UNION {{[i \in 1..k |-> [id |-> i, lengthMm |-> Num(c[i][1]), qty |-> Num(c[i][2])]] :
            c \in [1..k -> StockLengths \X (0..MaxQty)]} : k \in 0..MaxItems}

PiecesInputs == UNION {[1..k -> PieceValues] : k \in 0..MaxPieces}

FirstLines ==
  [heightMm : LineValues, widthMm : LineValues, qty : {Num(q) : q \in 0..MaxLineQty}]

\* The lines after the first are drawn from a few of the same lines.
FurtherLines == [heightMm : {Num(2)}, widthMm : {Half(2), NaN}, qty : {Num(1)}]

OrderLinesInputs ==
  UNION {{lines \in [1..k -> FirstLines] : \A i \in 2..k : lines[i] \in FurtherLines} :
           k \in 0..MaxLines}

EngInputs ==
  [fn : {"buildCutPlanBFDForPieces"}, inventoryItems : InventoryInputs,
   piecesMm : PiecesInputs, params : ParamPatches]
  \cup [fn : {"buildCutPlanBFD"}, inventoryItems : InventoryInputs,
        orderLines : OrderLinesInputs, params : ParamPatches]

EngInit ==
  /\ engInput \in EngInputs
  /\ engResult = NoEngineCall
  /\ engDone = FALSE
  /\ store = "memory"
  /\ inventory = FreshLedger.inventory
  /\ nextInventoryId = FreshLedger.nextInventoryId
  /\ plans = <<>>
  /\ tasks = [t \in CallSlots |-> IdleTask]
  /\ adds = 0
  /\ NoOrders

CallBuildCutPlanBFDForPieces ==
  /\ ~engDone
  /\ engInput.fn = "buildCutPlanBFDForPieces"
  /\ engResult' = buildCutPlanBFDForPieces(engInput.inventoryItems,
                                           engInput.piecesMm, engInput.params)
  /\ engDone' = TRUE
  /\ UNCHANGED <<engInput, storeVars, ordVars>>

CallBuildCutPlanBFD ==
  /\ ~engDone
  /\ engInput.fn = "buildCutPlanBFD"
  /\ engResult' = buildCutPlanBFD(engInput.inventoryItems,
                                  engInput.orderLines, engInput.params)
  /\ engDone' = TRUE
  /\ UNCHANGED <<engInput, storeVars, ordVars>>

EngNext == CallBuildCutPlanBFDForPieces \/ CallBuildCutPlanBFD

SpecEngine == EngInit /\ [][EngNext]_vars

-----------------------------------------------------------------------------
(* Properties of one engine call (checked under SpecEngine) *)

\* The sorted positive pieces the call under check works on.
EngPieces ==
  IF engInput.fn = "buildCutPlanBFDForPieces"
  THEN NormalizedPieces(engInput.piecesMm)
  ELSE NormalizedPieces(AsNumbers(expandOrderToPieces(engInput.orderLines)))

EngParams == normalizePlanParams(engInput.params)

\* No bar of the inventory can hold the longest piece with allowance and kerf.
EngLongestDoesNotFit ==
  /\ EngPieces # <<>>
  /\ EngPieces[1] + EngParams.allowanceMm + EngParams.kerfMm
       > MaxStock(engInput.inventoryItems)

CutsPlaced(result) ==
  SeqSum([i \in 1..Len(result.allocations) |-> Len(result.allocations[i].cuts)])

MissingTotal(result) ==
  SeqSum([i \in 1..Len(result.shortage) |-> result.shortage[i].missingCount])

\* C1 as stated: in every result, FAIL included, the cuts over all
\* allocations plus the missingCount over all shortage items number
\* stats.totalPieces.
C1_CutsPlusMissingIsTotal ==
  engDone => CutsPlaced(engResult) + MissingTotal(engResult)
               = engResult.stats.totalPieces

\* C1 amended: stats.totalPieces is the number of positive pieces; cuts
\* plus missingCount equals it in every result of a call whose longest piece
\* fits the longest bar, and in the FAIL result of a call whose longest
\* piece does not, there are no cuts and the one missingCount is the number
\* of pieces of that longest length only.
C1_CutsPlusMissingAmended ==
  engDone =>
    /\ engResult.stats.totalPieces = Len(EngPieces)
    /\ IF EngLongestDoesNotFit
       THEN /\ CutsPlaced(engResult) = 0
            /\ MissingTotal(engResult)
                 = Cardinality({i \in 1..Len(EngPieces) : EngPieces[i] = EngPieces[1]})
       ELSE CutsPlaced(engResult) + MissingTotal(engResult) = Len(EngPieces)

\* A PARTIAL result with cuts placed and two pieces missing.
C1_Witness ==
  /\ engDone
  /\ engResult.status = "PARTIAL"
  /\ CutsPlaced(engResult) > 0
  /\ MissingTotal(engResult) >= 2

\* C10: an allocation's remnantKept is true exactly when its remnantMm is at
\* least minRemnantMm, and stats.totalWasteMm is the sum of remnantMm over
\* the allocations whose remnant is not kept.
C10_RemnantKeptAndWaste ==
  engDone =>
    LET allocations == engResult.allocations
        notKept == {i \in 1..Len(allocations) :
                      allocations[i].remnantMm < EngParams.minRemnantMm}
    IN /\ \A i \in 1..Len(allocations) :
            allocations[i].remnantKept <=> (i \notin notKept)
       /\ engResult.stats.totalWasteMm
            = SeqSum([i \in 1..Len(allocations) |->
                        IF i \in notKept THEN allocations[i].remnantMm ELSE 0])

\* One remnant exactly at the threshold (kept), another below it (waste).
C10_Witness ==
  /\ engDone
  /\ \E i \in 1..Len(engResult.allocations) :
        /\ engResult.allocations[i].remnantKept
        /\ engResult.allocations[i].remnantMm = EngParams.minRemnantMm
        /\ EngParams.minRemnantMm > 0
  /\ \E i \in 1..Len(engResult.allocations) :
        /\ ~engResult.allocations[i].remnantKept
        /\ engResult.allocations[i].remnantMm > 0
  /\ engResult.stats.totalWasteMm > 0

-----------------------------------------------------------------------------
(* Properties of the plan store (checked under Spec) *)

PlanAllocations(planId) == plans[planId].result.allocations

\* The bars (allocations, not cuts) a plan takes from ledger row id.
BarsFrom(allocations, id) ==
  Cardinality({i \in 1..Len(allocations) : allocations[i].stock.sourceId = id})

\* The kept remnants of a plan that belong to the ledger row of that
\* (class, length) key: the class is that of the allocation's source row.
KeptInto(allocations, key) ==
  Cardinality({i \in 1..Len(allocations) :
                 /\ allocations[i].remnantKept
                 /\ toInventoryKey(allocations[i].remnantMm,
                      inventory[allocations[i].stock.sourceId].inventoryClass) = key})

\* The step in which call slot t enters commitPlan.
Started(t) == tasks[t].pc = "idle" /\ tasks'[t].pc # "idle"

\* Row id cannot supply the bars the plan takes from it.
Short(allocations, id) ==
  \/ id \notin DOMAIN inventory
  \/ inventory[id].qty < BarsFrom(allocations, id)

\* C2: a commitPlan call made after a call for the same plan has returned
\* COMMITTED returns ALREADY_COMMITTED and leaves the ledger (rows,
\* quantities, id counter) and the plans exactly as they were.
C2_CommitIdempotent ==
  [][\A t \in CallSlots :
       (/\ Started(t)
        /\ \E u \in CallSlots : /\ tasks[u].planId = tasks'[t].planId
                                /\ tasks[u].outcome = "COMMITTED")
       => /\ tasks'[t].pc = "done"
          /\ tasks'[t].outcome = "ALREADY_COMMITTED"
          /\ inventory' = inventory
          /\ nextInventoryId' = nextInventoryId
          /\ plans' = plans]_vars

\* One call committed a plan with an effect on the ledger, a later call for
\* the same plan returned ALREADY_COMMITTED.
C2_Witness ==
  \E t, u \in CallSlots :
     /\ tasks[t].planId = tasks[u].planId
     /\ tasks[t].outcome = "COMMITTED"
     /\ tasks[t].delta # <<>>
     /\ tasks[u].outcome = "ALREADY_COMMITTED"

\* C3 as stated: of the commitPlan calls on one plan, however interleaved,
\* at most one subtracts the plan's consumption from the ledger and at most
\* one returns COMMITTED.
C3_CommittedAtMostOnce ==
  \A planId \in 1..Len(plans) :
     /\ Cardinality({t \in CallSlots : /\ tasks[t].planId = planId
                                       /\ tasks[t].decremented}) <= 1
     /\ Cardinality({t \in CallSlots : /\ tasks[t].planId = planId
                                       /\ tasks[t].outcome = "COMMITTED"}) <= 1

\* Two calls on one plan have both returned COMMITTED, each having taken
\* the plan's bars from the ledger.
C3_Witness ==
  \E t, u \in CallSlots :
     /\ t # u
     /\ tasks[t].planId = tasks[u].planId
     /\ tasks[t].outcome = "COMMITTED" /\ tasks[u].outcome = "COMMITTED"
     /\ \E id \in DOMAIN inventory :
           /\ DeltaAt(tasks[t].delta, id) < 0
           /\ DeltaAt(tasks[u].delta, id) < 0

\* C4: a commitPlan call that meets a row short of the bars its plan takes
\* from it fails with ConflictError, and the step that raises ConflictError
\* leaves every row, the id counter and the plans unchanged, the plan still
\* PLANNED, and nothing of the call's earlier updates in place.
C4_ConflictMutatesNothing ==
  [][\A t \in CallSlots :
       LET planId == tasks'[t].planId
       IN /\ (tasks[t].outcome # "ConflictError" /\ tasks'[t].outcome = "ConflictError")
             => /\ inventory' = inventory
                /\ nextInventoryId' = nextInventoryId
                /\ plans' = plans
                /\ plans[planId].status = "PLANNED"
                /\ tasks'[t].writes = <<>>
                /\ tasks'[t].delta = <<>>
          /\ (/\ store = "memory"
              /\ Started(t)
              /\ planId \in 1..Len(plans)
              /\ plans[planId].status = "PLANNED"
              /\ \E i \in 1..Len(PlanAllocations(planId)) :
                    Short(PlanAllocations(planId),
                          PlanAllocations(planId)[i].stock.sourceId))
             => tasks'[t].outcome = "ConflictError"
          /\ (/\ store = "postgres"
              /\ tasks[t].pc = "update"
              /\ tasks'[t] # tasks[t]
              /\ WaitsFor(t) = {}
              /\ Short(PlanAllocations(planId),
                       summarizeConsumption(PlanAllocations(planId))
                         [tasks[t].step + 1].sourceId))
             => tasks'[t].outcome = "ConflictError"]_vars

\* A call failed with ConflictError on a plan that consumes two rows, the
\* first of which could supply its bars and the second could not.
C4_Witness ==
  \E t \in CallSlots :
     /\ tasks[t].outcome = "ConflictError"
     /\ LET allocations == PlanAllocations(tasks[t].planId)
            required == summarizeConsumption(allocations)
        IN /\ Len(required) >= 2
           /\ ~Short(allocations, required[1].sourceId)
           /\ Short(allocations, required[2].sourceId)

\* C5: no row quantity, committed or pending in a transaction, is ever
\* negative, and a row is decremented only in a step of a commitPlan call
\* whose plan takes n > 0 bars from it, the row holding at least n then.
C5_NoOverConsumption ==
  [][/\ \A id \in DOMAIN inventory : inventory[id].qty >= 0
     /\ \A id \in DOMAIN inventory' : inventory'[id].qty >= 0
     /\ \A t \in CallSlots : \A id \in DOMAIN tasks'[t].writes :
           /\ tasks'[t].writes[id].qty >= 0
           /\ (/\ id \in DOMAIN inventory
               /\ id \notin DOMAIN tasks[t].writes
               /\ tasks'[t].writes[id].qty < inventory[id].qty)
              => inventory[id].qty >= BarsFrom(PlanAllocations(tasks[t].planId), id)
     /\ \A id \in DOMAIN inventory :
           inventory'[id].qty < inventory[id].qty
           => \E t \in CallSlots :
                 /\ tasks'[t] # tasks[t]
                 /\ tasks'[t].planId \in 1..Len(plans)
                 /\ BarsFrom(PlanAllocations(tasks'[t].planId), id) > 0
                 /\ inventory[id].qty >= BarsFrom(PlanAllocations(tasks'[t].planId), id)
    ]_vars

\* A commit has taken the last bars of a row, and a call for another plan
\* that takes bars from that row has failed with ConflictError.
C5_Witness ==
  \E t, u \in CallSlots : \E id \in DOMAIN inventory :
     /\ tasks[t].outcome = "COMMITTED"
     /\ DeltaAt(tasks[t].delta, id) < 0
     /\ inventory[id].qty = 0
     /\ tasks[u].outcome = "ConflictError"
     /\ tasks[u].planId # tasks[t].planId
     /\ BarsFrom(PlanAllocations(tasks[u].planId), id) > 0

\* C6: a commitPlan call with an identifier createPlan never returned ends
\* with NotFoundError in the step it starts, the ledger and every plan
\* unchanged.
C6_UnknownPlanNotFound ==
  [][\A t \in CallSlots :
       (Started(t) /\ tasks'[t].planId \notin 1..Len(plans))
       => /\ tasks'[t].pc = "done"
          /\ tasks'[t].outcome = "NotFoundError"
          /\ inventory' = inventory
          /\ nextInventoryId' = nextInventoryId
          /\ plans' = plans]_vars

\* A call with an unknown identifier has failed while plans are staged.
C6_Witness ==
  /\ Len(plans) >= 1
  /\ \E t \in CallSlots :
        /\ tasks[t].outcome = "NotFoundError"
        /\ tasks[t].planId \notin 1..Len(plans)

\* C7: plans are never removed; a plan is created PLANNED; the only status
\* change of a step is PLANNED -> COMMITTED; no plan ever has a status other
\* than PLANNED or COMMITTED (never EXPIRED).
C7_PlanLifecycle ==
  [][/\ Len(plans') >= Len(plans)
     /\ \A planId \in 1..Len(plans') :
          /\ plans'[planId].status \in {"PLANNED", "COMMITTED"}
          /\ IF planId > Len(plans)
             THEN plans'[planId].status = "PLANNED"
             ELSE \/ plans'[planId].status = plans[planId].status
                  \/ /\ plans[planId].status = "PLANNED"
                     /\ plans'[planId].status = "COMMITTED"]_vars

\* One plan is COMMITTED; another, whose commit failed, is still PLANNED.
C7_Witness ==
  \E p, q \in 1..Len(plans) :
     /\ plans[p].status = "COMMITTED"
     /\ plans[q].status = "PLANNED"
     /\ \E t \in CallSlots : tasks[t].planId = q /\ tasks[t].outcome = "ConflictError"

\* The kept remnants of a plan whose (class, length) is that of row id.
KeptIntoRow(allocations, id) == KeptInto(allocations, RowKey(inventory[id]))

\* The (class, length) keys of a plan's remnants, kept or not.
RemnantKeys(allocations) ==
  {toInventoryKey(allocations[i].remnantMm,
                  inventory[allocations[i].stock.sourceId].inventoryClass) :
     i \in 1..Len(allocations)}

RowsOfKey(key) == {id \in DOMAIN inventory : RowKey(inventory[id]) = key}

RECURSIVE SumOver(_, _)
SumOver(f, S) ==
  IF S = {} THEN 0
  ELSE LET x == CHOOSE y \in S : TRUE IN f[x] + SumOver(f, S \ {x})

\* What a call has added to the ledger quantity of a (class, length) key.
KeyDelta(task, key) ==
  SumOver([id \in RowsOfKey(key) |-> DeltaAt(task.delta, id)], RowsOfKey(key))

\* The bars a plan takes from the ledger rows of a (class, length) key.
BarsFromKey(allocations, key) ==
  SumOver([id \in RowsOfKey(key) |-> BarsFrom(allocations, id)], RowsOfKey(key))

\* C8 as stated: a call that returned COMMITTED has lowered each source row
\* of its plan by exactly the number of allocations taken from it, and has
\* left unchanged every row that is neither a source row nor the (class,
\* length) of a kept remnant.
C8_SourceRowsLoseTheirBars ==
  \A t \in CallSlots :
     tasks[t].outcome = "COMMITTED" =>
       LET allocations == PlanAllocations(tasks[t].planId)
       IN \A id \in DOMAIN inventory :
            /\ BarsFrom(allocations, id) > 0
               => DeltaAt(tasks[t].delta, id) = 0 - BarsFrom(allocations, id)
            /\ (BarsFrom(allocations, id) = 0 /\ KeptIntoRow(allocations, id) = 0)
               => DeltaAt(tasks[t].delta, id) = 0

\* C8 amended: a call that returned COMMITTED has changed each ledger row
\* by minus the number of allocations taken from it plus the number of the
\* plan's kept remnants of that row's class and length; so a source row
\* that is also the row of a kept remnant loses fewer than its bars, and a
\* row that is neither is unchanged.
C8_RowsChangeByBarsAndRemnants ==
  \A t \in CallSlots :
     tasks[t].outcome = "COMMITTED" =>
       LET allocations == PlanAllocations(tasks[t].planId)
       IN \A id \in DOMAIN inventory :
            DeltaAt(tasks[t].delta, id)
              = KeptIntoRow(allocations, id) - BarsFrom(allocations, id)

\* A committed plan that takes two bars from one row, cuts a bar twice, and
\* returns a kept remnant to one of its own source rows.
C8_Witness ==
  \E t \in CallSlots :
     /\ tasks[t].outcome = "COMMITTED"
     /\ LET allocations == PlanAllocations(tasks[t].planId)
        IN /\ \E id \in DOMAIN inventory : BarsFrom(allocations, id) >= 2
           /\ \E i \in 1..Len(allocations) : Len(allocations[i].cuts) >= 2
           /\ \E id \in DOMAIN inventory :
                 /\ BarsFrom(allocations, id) > 0
                 /\ KeptIntoRow(allocations, id) > 0

\* C9 as stated: a call that returned COMMITTED has raised the ledger
\* quantity of every (source class, remnant length) of its plan by exactly
\* the number of kept remnants of that class and length.
C9_RemnantKeysGainKept ==
  \A t \in CallSlots :
     tasks[t].outcome = "COMMITTED" =>
       LET allocations == PlanAllocations(tasks[t].planId)
       IN \A key \in RemnantKeys(allocations) :
            KeyDelta(tasks[t], key) = KeptInto(allocations, key)

\* C9 amended: a call that returned COMMITTED has changed the ledger
\* quantity of every (source class, remnant length) of its plan by the
\* number of kept remnants of that class and length minus the bars the plan
\* takes from the row of that class and length; a key with a kept remnant
\* has exactly one row afterwards, and remnants not kept add nothing.
C9_RemnantKeysGainKeptLessBars ==
  \A t \in CallSlots :
     tasks[t].outcome = "COMMITTED" =>
       LET allocations == PlanAllocations(tasks[t].planId)
       IN \A key \in RemnantKeys(allocations) :
            /\ KeyDelta(tasks[t], key)
                 = KeptInto(allocations, key) - BarsFromKey(allocations, key)
            /\ KeptInto(allocations, key) > 0 => Cardinality(RowsOfKey(key)) = 1

\* A committed plan with one remnant not kept and one kept remnant for
\* which the commit created the row.
C9_Witness ==
  \E t \in CallSlots :
     /\ tasks[t].outcome = "COMMITTED"
     /\ LET allocations == PlanAllocations(tasks[t].planId)
        IN /\ \E i \in 1..Len(allocations) : ~allocations[i].remnantKept
           /\ \E key \in RemnantKeys(allocations) :
                 /\ KeptInto(allocations, key) > 0
                 /\ BarsFromKey(allocations, key) = 0
                 /\ \A id \in RowsOfKey(key) :
                       /\ id >= WornLedger.nextInventoryId
                       /\ inventory[id].qty = DeltaAt(tasks[t].delta, id)

-----------------------------------------------------------------------------
(* The placement loop of one engine call, step by step *)

\* The bars and the shortage tally after the first k pieces of the call
\* under check have gone through the placement loop.
EngStateAfter(k) ==
  PlaceAll([bars |-> expandInventory(engInput.inventoryItems), shortageMap |-> <<>>],
           SubSeq(EngPieces, 1, k), EngParams)

RECURSIVE Trajectory(_, _, _)
\* The states of the placement loop in order: st, then st after one piece, ...
Trajectory(st, pieces, normalizedParams) ==
  <<st>> \o (IF pieces = <<>> THEN <<>>
             ELSE Trajectory(PlacePiece(st, Head(pieces), normalizedParams),
                             Tail(pieces), normalizedParams))

\* EngTrajectory[k + 1] = EngStateAfter(k), for k in 0..Len(EngPieces).
EngTrajectory ==
  Trajectory([bars |-> expandInventory(engInput.inventoryItems), shortageMap |-> <<>>],
             EngPieces, EngParams)

EffectiveOf(piece) == piece + EngParams.allowanceMm + EngParams.kerfMm

CutsEffectiveSum(bar) == SeqSum([j \in 1..Len(bar.cuts) |-> bar.cuts[j].effectiveMm])

\* C11: in a call that reaches the placement loop, after every placement
\* step every bar has 0 <= remainingMm <= originalMm, what it has lost is
\* the sum of the effective lengths of its cuts, and a step records a cut
\* only on a bar whose remaining length before the step was at least the
\* cut's effective length.
C11_BarsNeverOverdrawn ==
  (engDone /\ ~EngLongestDoesNotFit) =>
    /\ LET traj == EngTrajectory
       IN /\ Len(traj) = Len(EngPieces) + 1
          /\ traj[Len(traj)] = EngStateAfter(Len(EngPieces))
          /\ \A k \in 0..Len(EngPieces) : \A i \in 1..Len(traj[k + 1].bars) :
                LET bar == traj[k + 1].bars[i]
                IN /\ bar.remainingMm >= 0
                   /\ bar.remainingMm <= bar.originalMm
                   /\ bar.originalMm - bar.remainingMm = CutsEffectiveSum(bar)
          /\ \A k \in 1..Len(EngPieces) : \A i \in 1..Len(traj[k + 1].bars) :
                LET before == traj[k].bars[i]
                    after == traj[k + 1].bars[i]
                IN Len(after.cuts) > Len(before.cuts)
                   => /\ after.cuts[Len(after.cuts)].effectiveMm = EffectiveOf(EngPieces[k])
                      /\ before.remainingMm >= EffectiveOf(EngPieces[k])
    /\ \A a \in 1..Len(engResult.allocations) :
          /\ engResult.allocations[a].remnantMm >= 0
          /\ engResult.allocations[a].usedMm <= engResult.allocations[a].stock.lengthMm

\* A bar cut twice down to nothing, and a later piece left without a bar.
C11_Witness ==
  /\ engDone
  /\ ~EngLongestDoesNotFit
  /\ LET bars == EngStateAfter(Len(EngPieces)).bars
     IN \E i \in 1..Len(bars) : bars[i].remainingMm = 0 /\ Len(bars[i].cuts) >= 2
  /\ engResult.shortage # <<>>

-----------------------------------------------------------------------------
(* Short-circuit classification and overall status *)

ShortCircuitReasons == {"NO_STOCK_LONG_ENOUGH", "KERF_ALLOWANCE_MAKES_IT_IMPOSSIBLE"}

HasReason(result, reason) ==
  \E i \in 1..Len(result.shortage) : result.shortage[i].reason = reason

\* The longest stock length among the rows handed to the call, 0 if none,
\* read off the input rows.
EngRowLengths ==
  {toNonNegativeInt(engInput.inventoryItems[i].lengthMm) :
     i \in 1..Len(engInput.inventoryItems)}

EngM == CHOOSE m \in EngRowLengths \cup {0} : \A x \in EngRowLengths : x <= m

EngL ==
  LET pieces == EngPieces
  IN CHOOSE p \in SeqRange(pieces) : \A i \in 1..Len(pieces) : pieces[i] <= p

\* C12: for a call with at least one piece, the result carries a
\* short-circuit reason exactly when L + allowance + kerf > M; the reason is
\* NO_STOCK_LONG_ENOUGH exactly when L + allowance > M and
\* KERF_ALLOWANCE_MAKES_IT_IMPOSSIBLE exactly when
\* L + allowance <= M < L + allowance + kerf.
C12_ShortCircuitClassification ==
  (engDone /\ EngPieces # <<>>) =>
    LET withAllowance == EngL + EngParams.allowanceMm
        effective == withAllowance + EngParams.kerfMm
    IN /\ (\E r \in ShortCircuitReasons : HasReason(engResult, r)) <=> effective > EngM
       /\ HasReason(engResult, "NO_STOCK_LONG_ENOUGH") <=> withAllowance > EngM
       /\ HasReason(engResult, "KERF_ALLOWANCE_MAKES_IT_IMPOSSIBLE")
            <=> (withAllowance <= EngM /\ EngM < effective)

\* The longest piece with its allowance is exactly as long as the longest
\* bar, and the kerf pushes it over.
C12_Witness ==
  /\ engDone
  /\ EngPieces # <<>>
  /\ EngL + EngParams.allowanceMm = EngM
  /\ EngParams.kerfMm > 0
  /\ HasReason(engResult, "KERF_ALLOWANCE_MAKES_IT_IMPOSSIBLE")

\* C13: the result of a call whose longest piece cannot fit the longest
\* stock length has status FAIL, no allocations, totalUsedStocks 0,
\* totalWasteMm 0 and exactly one shortage item, for the longest piece
\* length, whose missingCount is the number of pieces of that length.
C13_ShortCircuitResultShape ==
  (engDone /\ EngPieces # <<>>
     /\ EngL + EngParams.allowanceMm + EngParams.kerfMm > EngM) =>
    /\ engResult.status = "FAIL"
    /\ engResult.allocations = <<>>
    /\ engResult.stats.totalUsedStocks = 0
    /\ engResult.stats.totalWasteMm = 0
    /\ Len(engResult.shortage) = 1
    /\ engResult.shortage[1].pieceMm = EngL
    /\ engResult.shortage[1].missingCount
         = Cardinality({i \in 1..Len(EngPieces) : EngPieces[i] = EngL})

\* Two pieces share the longest length and a shorter one is also asked for.
C13_Witness ==
  /\ engDone
  /\ Len(EngPieces) = 3
  /\ EngL + EngParams.allowanceMm + EngParams.kerfMm > EngM
  /\ engResult.shortage[1].missingCount = 2

\* C14: in every result, status is SUCCESS iff the shortage list is empty,
\* PARTIAL iff it is non-empty and there is an allocation, FAIL iff it is
\* non-empty and there is no allocation.
C14_StatusRule ==
  engDone =>
    /\ engResult.status = "SUCCESS" <=> engResult.shortage = <<>>
    /\ engResult.status = "PARTIAL"
         <=> (engResult.shortage # <<>> /\ engResult.allocations # <<>>)
    /\ engResult.status = "FAIL"
         <=> (engResult.shortage # <<>> /\ engResult.allocations = <<>>)

\* A greedy pass that placed some pieces and ran out of stock for others.
C14_Witness ==
  /\ engDone
  /\ engResult.status = "PARTIAL"
  /\ engResult.allocations # <<>>
  /\ HasReason(engResult, "INSUFFICIENT_STOCK_AFTER_ALLOCATION")

-----------------------------------------------------------------------------
(* Best fit *)

\* The bars that can hold a cut of effectiveMm.
Fits(bars, effectiveMm) == {i \in 1..Len(bars) : bars[i].remainingMm >= effectiveMm}

ShortageCount(shortageMap, piece) ==
  IF piece \in DOMAIN shortageMap THEN shortageMap[piece] ELSE 0

\* C15: the pieces go through the placement loop in non-increasing length
\* order; a step with a bar that can hold the piece cuts exactly one bar,
\* one whose leftover is the least among the bars that can hold it, and
\* adds nothing to the shortage tally; a step adds to the tally (one, under
\* the piece's length, all bars untouched) only when no bar can hold the
\* piece.  The piece reported by the early return has no bar either.
C15_BestFitDecreasing ==
  engDone =>
   LET pieces == EngPieces
       allowanceAndKerf == EngParams.allowanceMm + EngParams.kerfMm
   IN
    /\ \A i, j \in 1..Len(pieces) : i < j => pieces[i] >= pieces[j]
    /\ ~EngLongestDoesNotFit =>
         LET traj == EngTrajectory
         IN \A k \in 1..Len(pieces) :
           LET before == traj[k]
               after == traj[k + 1]
               effectiveMm == pieces[k] + allowanceAndKerf
               fits == Fits(before.bars, effectiveMm)
               changed == {i \in 1..Len(before.bars) : after.bars[i] # before.bars[i]}
           IN IF fits = {}
              THEN /\ changed = {}
                   /\ DOMAIN after.shortageMap = DOMAIN before.shortageMap \cup {pieces[k]}
                   /\ \A p \in DOMAIN after.shortageMap :
                        after.shortageMap[p] = ShortageCount(before.shortageMap, p)
                                                 + (IF p = pieces[k] THEN 1 ELSE 0)
              ELSE /\ after.shortageMap = before.shortageMap
                   /\ \E i \in fits :
                        /\ changed = {i}
                        /\ after.bars[i].remainingMm = before.bars[i].remainingMm - effectiveMm
                        /\ after.bars[i].cuts
                             = Append(before.bars[i].cuts,
                                      [pieceMm |-> pieces[k], effectiveMm |-> effectiveMm])
                        /\ \A j \in fits :
                             before.bars[j].remainingMm >= before.bars[i].remainingMm
    /\ EngLongestDoesNotFit =>
         \A s \in 1..Len(engResult.shortage) :
           Fits(expandInventory(engInput.inventoryItems),
                EffectiveOf(engResult.shortage[s].pieceMm)) = {}

\* A piece that fits two bars of different remaining length and goes to the
\* tighter one, which is not the first in scan order.
C15_Witness ==
  /\ engDone
  /\ ~EngLongestDoesNotFit
  /\ \E k \in 1..Len(EngPieces) :
        LET before == EngStateAfter(k - 1)
            after == EngStateAfter(k)
            fits == Fits(before.bars, EffectiveOf(EngPieces[k]))
        IN \E i, j \in fits :
             /\ i < j
             /\ before.bars[j].remainingMm < before.bars[i].remainingMm
             /\ after.bars[j] # before.bars[j]

-----------------------------------------------------------------------------
(* Piece expansion *)

RECURSIVE SumOfLines(_, _)
\* The sum over the order lines of f[line], f a function on lines.
SumOfLines(orderLines, f) ==
  IF orderLines = <<>> THEN 0
  ELSE f[Head(orderLines)] + SumOfLines(Tail(orderLines), f)

\* The pieces of length v a line is to contribute: 2 * qty for the height
\* and 2 * qty for the width, each only if it rounds to v.
LineShare(line, v) ==
  2 * toNonNegativeInt(line.qty)
    * ((IF toNonNegativeInt(line.heightMm) = v THEN 1 ELSE 0)
       + (IF toNonNegativeInt(line.widthMm) = v THEN 1 ELSE 0))

EngLinesAllPositive ==
  \A i \in 1..Len(engInput.orderLines) :
    /\ toNonNegativeInt(engInput.orderLines[i].heightMm) > 0
    /\ toNonNegativeInt(engInput.orderLines[i].widthMm) > 0
    /\ toNonNegativeInt(engInput.orderLines[i].qty) > 0

\* C16: in a buildCutPlanBFD call the pieces of each positive length v are
\* as many as the lines' shares (2 * qty per height or width rounding to
\* v), a dimension rounding to a non-positive or non-finite value gives no
\* piece, and when every line has positive height, width and quantity
\* stats.totalPieces = 4 * (sum of the quantities).
C16_PieceExpansion ==
  (engDone /\ engInput.fn = "buildCutPlanBFD") =>
    LET lines == engInput.orderLines
        pieces == expandOrderToPieces(lines)
        lengths == {toNonNegativeInt(lines[i].heightMm) : i \in 1..Len(lines)}
                     \cup {toNonNegativeInt(lines[i].widthMm) : i \in 1..Len(lines)}
    IN /\ \A i \in 1..Len(pieces) : pieces[i] > 0 /\ pieces[i] \in lengths
       /\ \A v \in lengths \ {0} :
            countOf(pieces, v) = SumOfLines(lines, [l \in FirstLines |-> LineShare(l, v)])
       /\ engResult.stats.totalPieces = Len(pieces)
       /\ SeqSum([i \in 1..Len(engResult.cutList) |-> engResult.cutList[i].count])
            = Len(pieces)
       /\ EngLinesAllPositive =>
            engResult.stats.totalPieces
              = 4 * SumOfLines(lines, [l \in FirstLines |-> toNonNegativeInt(l.qty)])

\* Two lines of positive height and width, quantities 2 and 1: 12 pieces.
C16_Witness ==
  /\ engDone
  /\ engInput.fn = "buildCutPlanBFD"
  /\ Len(engInput.orderLines) = 2
  /\ EngLinesAllPositive
  /\ engInput.orderLines[1].qty = Num(2)
  /\ engResult.stats.totalPieces = 12

-----------------------------------------------------------------------------
(* Best fit decreasing against what the stock could hold *)

RECURSIVE CanPack(_, _)
\* Some assignment of the effective lengths to the bars of the given
\* remaining capacities keeps every bar within its capacity.  Bars of equal
\* capacity are interchangeable, so one bar per capacity is tried.
CanPack(effectives, capacities) ==
  \/ effectives = <<>>
  \/ /\ SeqSum(effectives) <= SeqSum(capacities)
     /\ \E c \in SeqRange(capacities) :
          /\ c >= Head(effectives)
          /\ LET i == CHOOSE j \in 1..Len(capacities) : capacities[j] = c
             IN CanPack(Tail(effectives),
                        [capacities EXCEPT ![i] = c - Head(effectives)])

\* The inventory of the call under check can fulfil all its pieces.
EngFeasible ==
  LET pieces == EngPieces
      bars == expandInventory(engInput.inventoryItems)
      allowanceAndKerf == EngParams.allowanceMm + EngParams.kerfMm
  IN CanPack([i \in 1..Len(pieces) |-> pieces[i] + allowanceAndKerf],
             [i \in 1..Len(bars) |-> bars[i].originalMm])

\* Every piece could have a bar of its own: the bars able to hold the
\* longest piece are at least as many as the pieces.
EngABarForEachPiece ==
  LET pieces == EngPieces
      bars == expandInventory(engInput.inventoryItems)
  IN pieces # <<>> =>
       Cardinality(Fits(bars, EffectiveOf(pieces[1]))) >= Len(pieces)

\* C17 as stated: whenever some assignment of every piece to a bar keeps
\* each bar within its length, buildCutPlanBFD returns SUCCESS with an
\* empty shortage list.
C17_SuccessWheneverFeasible ==
  (engDone /\ engInput.fn = "buildCutPlanBFD" /\ EngFeasible) =>
    (engResult.status = "SUCCESS" /\ engResult.shortage = <<>>)

\* C17 amended: a SUCCESS result means the inventory can fulfil all pieces
\* (so a call on an inventory that cannot is never SUCCESS), and the call
\* is SUCCESS with an empty shortage list when there are no pieces or when
\* the bars able to hold the longest piece are at least as many as the
\* pieces.
C17_SuccessImpliesFeasible ==
  engDone =>
    /\ engResult.status = "SUCCESS" => (engResult.shortage = <<>> /\ EngFeasible)
    /\ EngABarForEachPiece =>
         (engResult.status = "SUCCESS" /\ engResult.shortage = <<>>)

\* Four pieces, all placed, two to a bar.
C17_Witness ==
  /\ engDone
  /\ engInput.fn = "buildCutPlanBFD"
  /\ Len(EngPieces) >= 4
  /\ EngFeasible
  /\ ~EngABarForEachPiece
  /\ engResult.status = "SUCCESS"
  /\ \E a \in 1..Len(engResult.allocations) : Len(engResult.allocations[a].cuts) >= 2

-----------------------------------------------------------------------------
(* Outcomes of commitPlan *)

CommitOutcomes == {"COMMITTED", "ALREADY_COMMITTED", "NotFoundError", "ConflictError"}

\* C18 as stated: every commitPlan call that has ended has ended with
\* COMMITTED, ALREADY_COMMITTED, NotFound or Conflict, whatever the plan and
\* whatever ran beside it.
C18_CommitEndsInOneOfFour ==
  \A t \in CallSlots : tasks[t].pc = "done" => tasks[t].outcome \in CommitOutcomes

\* A PostgresStore commit that ran alone and ended in a database error.
C18_Witness ==
  /\ store = "postgres"
  /\ adds = 0
  /\ tasks[1].pc = "done"
  /\ tasks[1].outcome = "DatabaseError"
  /\ \A t \in CallSlots \ {1} : tasks[t].pc = "idle"

-----------------------------------------------------------------------------
(* Concurrent commits against sequential ones *)

\* MemoryStore.commitPlan of a PLANNED plan run from call to return with
\* nothing in between, on the rows inv: the rows and the outcome it leaves.
MemCommitAlone(inv, result) ==
  LET requiredBySource == summarizeConsumption(result.allocations)
  IN IF HasConflict(inv, requiredBySource)
     THEN [inventory |-> inv, outcome |-> "ConflictError"]
     ELSE LET taken == Decrement(inv, requiredBySource)
              remnants == summarizeRemnants(result.allocations, ClassOfRow(taken))
              nextId == SetMax({0} \cup DOMAIN inv) + 1
          IN [inventory |-> AddAll([inventory |-> taken, nextInventoryId |-> nextId],
                                   remnants).inventory,
              outcome |-> "COMMITTED"]

RECURSIVE UpsertAll(_, _)
\* The INSERT loop of one transaction on the rows tbl: [ok, tbl].
UpsertAll(tbl, remnants) ==
  IF remnants = <<>> THEN [ok |-> TRUE, tbl |-> tbl]
  ELSE LET up == Upsert(tbl, SetMax({0} \cup DOMAIN tbl) + 1,
                        Head(remnants).inventoryClass, Head(remnants).lengthMm,
                        Head(remnants).qty)
       IN IF up.ok THEN UpsertAll(PutRow(tbl, up.row), Tail(remnants))
          ELSE [ok |-> FALSE, tbl |-> tbl]

\* PostgresStore.commitPlan of a PLANNED plan as the only transaction.
PgCommitAlone(inv, result) ==
  LET consumptionBySource == summarizeConsumption(result.allocations)
  IN IF HasConflict(inv, consumptionBySource)
     THEN [inventory |-> inv, outcome |-> "ConflictError"]
     ELSE LET updated == Decrement(inv, consumptionBySource)
              remnants == summarizeRemnants(result.allocations, ClassOfRow(updated))
              inserted == UpsertAll(updated, remnants)
          IN IF inserted.ok
             THEN [inventory |-> inserted.tbl, outcome |-> "COMMITTED"]
             ELSE [inventory |-> inv, outcome |-> "DatabaseError"]

CommitAlone(inv, result) ==
  IF store = "memory" THEN MemCommitAlone(inv, result) ELSE PgCommitAlone(inv, result)

\* What the ledger holds: the quantity under each (class, length).
LedgerContent(inv) == {<<RowKey(inv[id]), inv[id].qty>> : id \in DOMAIN inv}

\* Two calls on distinct existing plans have both ended, and no inventory
\* was added since the first of them started.
TwoCommitsEnded ==
  /\ tasks[1].pc = "done"
  /\ tasks[2].pc = "done"
  /\ tasks[1].planId \in 1..Len(plans)
  /\ tasks[2].planId \in 1..Len(plans)
  /\ tasks[1].planId # tasks[2].planId
  /\ tasks[1].seen.adds = adds

\* The outcomes and the ledger are those of call a run alone and then call
\* b run alone, from the rows the first call found.
SameAsInOrder(a, b) ==
  LET first == CommitAlone(tasks[1].seen.inventory, plans[tasks[a].planId].result)
      second == CommitAlone(first.inventory, plans[tasks[b].planId].result)
  IN /\ tasks[a].outcome = first.outcome
     /\ tasks[b].outcome = second.outcome
     /\ LedgerContent(inventory) = LedgerContent(second.inventory)

\* C19: when two commitPlan calls on distinct plans have ended, however
\* their steps interleaved, their outcomes and the ledger are those of the
\* two calls run one after the other in some order.
C19_DistinctCommitsSerializable ==
  TwoCommitsEnded => (SameAsInOrder(1, 2) \/ SameAsInOrder(2, 1))

\* The second call started while the first had not ended, and neither of
\* the two orders gives what they left.
C19_Witness ==
  /\ TwoCommitsEnded
  /\ store = "memory"
  /\ tasks[1].outcome = "COMMITTED"
  /\ tasks[2].outcome = "ConflictError"
  /\ ~SameAsInOrder(1, 2)
  /\ ~SameAsInOrder(2, 1)

-----------------------------------------------------------------------------
(* Planning and the ledger *)

\* C20: a step that stages a plan (the route's listInventory, the engine
\* call and createPlan) leaves every inventory row, the id counter, the
\* earlier plans and every commit call as they were; the new plan is
\* PLANNED and holds the engine's result for those rows.
C20_PlanningWritesNoRow ==
  [][Len(plans') > Len(plans) =>
       /\ inventory' = inventory
       /\ nextInventoryId' = nextInventoryId
       /\ tasks' = tasks
       /\ adds' = adds
       /\ Len(plans') = Len(plans) + 1
       /\ SubSeq(plans', 1, Len(plans)) = plans
       /\ plans'[Len(plans')].status = "PLANNED"
       /\ \E req \in PlanRequests :
            plans'[Len(plans')].result = PlanResultFor(inventory, req)]_vars

\* A MemoryStore plan that cuts bars of both a short and a long row is
\* staged, no call has started, and the ledger is as constructed.
C20_Witness ==
  /\ store = "memory"
  /\ adds = 0
  /\ \A t \in CallSlots : tasks[t].pc = "idle"
  /\ \E led \in InitialLedgers : inventory = led.inventory
  /\ plans # <<>>
  /\ Len(plans[1].result.allocations) >= 2

-----------------------------------------------------------------------------
(* The result as a value: statuses, the empty order, the shortage list *)

PlanStatuses == {"SUCCESS", "PARTIAL", "FAIL"}

ShortageReasonValues ==
  ShortCircuitReasons \cup {"INSUFFICIENT_STOCK_AFTER_ALLOCATION"}

\* The pieces of length v that the allocations of a result cut.
CutsOfLength(result, v) ==
  SeqSum([a \in 1..Len(result.allocations) |->
            Cardinality({j \in 1..Len(result.allocations[a].cuts) :
                           result.allocations[a].cuts[j].pieceMm = v})])

\* What the call under check returns.
EngReturn ==
  IF engInput.fn = "buildCutPlanBFDForPieces"
  THEN buildCutPlanBFDForPieces(engInput.inventoryItems, engInput.piecesMm,
                                engInput.params)
  ELSE buildCutPlanBFD(engInput.inventoryItems, engInput.orderLines, engInput.params)

\* C21: a call not yet made has a result to return, a call made has
\* returned it, and a returned result has
\* status SUCCESS, PARTIAL or FAIL; every piece it could not place is
\* reported in a shortage item (a positive count under one of the three
\* reasons, for a length that was asked for) and in no allocation: the
\* cuts of each length are no more than the pieces of that length, and
\* cuts and missing counts together never exceed the pieces.
C21_ShortageIsAValue ==
  /\ ~engDone => EngReturn.status \in PlanStatuses
  /\ engDone =>
       LET pieces == EngPieces
       IN /\ engResult = EngReturn
          /\ engResult.status \in PlanStatuses
          /\ \A s \in 1..Len(engResult.shortage) :
               /\ engResult.shortage[s].reason \in ShortageReasonValues
               /\ engResult.shortage[s].missingCount >= 1
               /\ engResult.shortage[s].pieceMm \in SeqRange(pieces)
               /\ CutsOfLength(engResult, engResult.shortage[s].pieceMm)
                    + engResult.shortage[s].missingCount
                    <= countOf(pieces, engResult.shortage[s].pieceMm)
          /\ \A v \in SeqRange(pieces) : CutsOfLength(engResult, v) <= countOf(pieces, v)
          /\ engResult.status # "SUCCESS" => engResult.shortage # <<>>

\* Stock is listed but there is no bar of it: the pass places nothing and
\* reports the pieces as missing.
C21_Witness ==
  /\ engDone
  /\ engInput.inventoryItems # <<>>
  /\ engResult.status = "FAIL"
  /\ engResult.allocations = <<>>
  /\ HasReason(engResult, "INSUFFICIENT_STOCK_AFTER_ALLOCATION")

\* Every piece handed in rounds to a non-positive length, or is expanded
\* from a line of quantity 0 or of such dimensions: none is left.
EngNoPositivePiece ==
  IF engInput.fn = "buildCutPlanBFDForPieces"
  THEN \A i \in 1..Len(engInput.piecesMm) : toNonNegativeInt(engInput.piecesMm[i]) <= 0
  ELSE \A i \in 1..Len(engInput.orderLines) :
         \/ toNonNegativeInt(engInput.orderLines[i].qty) <= 0
         \/ /\ toNonNegativeInt(engInput.orderLines[i].heightMm) <= 0
            /\ toNonNegativeInt(engInput.orderLines[i].widthMm) <= 0

\* C22: a call with no piece, or with every piece dropped as non-positive,
\* returns SUCCESS with empty cutList, allocations and shortage and all
\* three stats 0, whatever the inventory.
C22_EmptyOrderSucceeds ==
  (engDone /\ EngNoPositivePiece) =>
    engResult = [status |-> "SUCCESS", cutList |-> <<>>, allocations |-> <<>>,
                 shortage |-> <<>>,
                 stats |-> [totalPieces |-> 0, totalUsedStocks |-> 0,
                            totalWasteMm |-> 0]]

\* Pieces were handed in, all of them dropped, and there is stock.
C22_Witness ==
  /\ engDone
  /\ engInput.fn = "buildCutPlanBFDForPieces"
  /\ Len(engInput.piecesMm) >= 2
  /\ EngNoPositivePiece
  /\ expandInventory(engInput.inventoryItems) # <<>>
  /\ engResult.status = "SUCCESS"

\* C23: in the result of a call that reaches the placement loop, the
\* shortage list has one item for each piece length with an unplaced piece
\* and no other, each with reason INSUFFICIENT_STOCK_AFTER_ALLOCATION and
\* missingCount the number of unplaced pieces of that length, in strictly
\* descending pieceMm order.
C23_GreedyShortageList ==
  (engDone /\ EngPieces # <<>> /\ ~EngLongestDoesNotFit) =>
    LET pieces == EngPieces
        unplaced(v) == countOf(pieces, v) - CutsOfLength(engResult, v)
        short == {v \in SeqRange(pieces) : unplaced(v) >= 1}
    IN /\ {engResult.shortage[s].pieceMm : s \in 1..Len(engResult.shortage)} = short
       /\ Len(engResult.shortage) = Cardinality(short)
       /\ \A s \in 1..Len(engResult.shortage) :
            /\ engResult.shortage[s].reason = "INSUFFICIENT_STOCK_AFTER_ALLOCATION"
            /\ engResult.shortage[s].missingCount = unplaced(engResult.shortage[s].pieceMm)
       /\ \A s \in 1..(Len(engResult.shortage) - 1) :
            engResult.shortage[s].pieceMm > engResult.shortage[s + 1].pieceMm

\* Two lengths are short, one of them by two pieces or more.
C23_Witness ==
  /\ engDone
  /\ ~EngLongestDoesNotFit
  /\ Len(engResult.shortage) >= 2
  /\ \E s \in 1..Len(engResult.shortage) : engResult.shortage[s].missingCount >= 2
  /\ engResult.allocations # <<>>


-----------------------------------------------------------------------------
(* The order queue: POST /orders, POST /orders/:orderId/accept and          *)
(* POST /orders/accept-all over acceptStoredOrder, whose steps are its      *)
(* store calls.  A stored height of 0 stands for null (a stored height is   *)
(* null or positive).                                                       *)

MaxOrders == 2

\* memory-store.ts toPositiveInt.
toPositiveInt(value) ==
  IF value.kind = "nan" THEN 0 ELSE Max(0, toNonNegativeInt(value))

\* memory-store.ts toNullablePositiveInt, null written as 0.
toNullablePositiveInt(value) ==
  LET parsed == toPositiveInt(value) IN IF parsed > 0 THEN parsed ELSE 0

\* The rows the model queues with POST /orders, after the route's conversion.
OrderInputs ==
  { [inventoryClass |-> "Komarnici", heightMm |-> NaN, widthMm |-> Num(1500),
     qty |-> Num(1), widthOnly |-> TRUE],
    [inventoryClass |-> "Komarnici", heightMm |-> Num(500), widthMm |-> Num(1500),
     qty |-> Num(1), widthOnly |-> FALSE],
    [inventoryClass |-> "Prozorske daske", heightMm |-> NaN, widthMm |-> Num(900),
     qty |-> Num(1), widthOnly |-> TRUE] }

\* createOrders: the stored order of one entry.
NewOrder(entry) ==
  [inventoryClass |-> normalizeInventoryClass(entry.inventoryClass),
   heightMm |-> toNullablePositiveInt(entry.heightMm),
   widthMm |-> toPositiveInt(entry.widthMm),
   qty |-> toPositiveInt(entry.qty),
   widthOnly |-> entry.widthOnly,
   status |-> "PENDING", acceptedPlanIds |-> <<>>]

\* POST /orders with one row: store.createOrders.
CreateOrders(entry) ==
  /\ Len(orders) < MaxOrders
  /\ orders' = Append(orders, NewOrder(entry))
  /\ UNCHANGED <<accepts, batch, storeVars, engVars>>

\* The order line acceptStoredOrder plans: heightMm ?? widthMm, widthMm, qty.
OrderLineOf(order) ==
  [heightMm |-> Num(IF order.heightMm = 0 THEN order.widthMm ELSE order.heightMm),
   widthMm |-> Num(order.widthMm), qty |-> Num(order.qty)]

\* The plan acceptStoredOrder computes from the rows it listed.
AcceptPlan(rows, order) ==
  LET params == mergePlanParams(<<>>)
      orderLines == <<OrderLineOf(order)>>
      ofClass == SelectSeq(rows, LAMBDA item : item.inventoryClass = order.inventoryClass)
      inventoryItems == [i \in 1..Len(ofClass) |-> ToItem(ofClass[i])]
  IN IF order.widthOnly
     THEN buildCutPlanBFDForPieces(inventoryItems,
                                   expandOrderWidthsToPieces(orderLines), params)
     ELSE buildCutPlanBFD(inventoryItems, orderLines, params)

\* The order taken for PENDING whatever its status.
AcceptEntry_ReadsPending(acc, orderId) ==
  IF orderId \notin 1..Len(orders)
  THEN [acc EXCEPT !.pc = "done", !.orderId = orderId, !.outcome = "NotFoundError"]
  ELSE [acc EXCEPT !.pc = "got", !.orderId = orderId, !.status = "PENDING"]

\* store.getOrderById: the order as read, or NotFoundError thrown.
AcceptEntry(acc, orderId) ==
  IF orderId \notin 1..Len(orders)
  THEN [acc EXCEPT !.pc = "done", !.orderId = orderId, !.outcome = "NotFoundError"]
  ELSE [acc EXCEPT !.pc = "got", !.orderId = orderId, !.status = orders[orderId].status]

\* POST /orders/:orderId/accept calls acceptStoredOrder.
AcceptRoute(orderId) ==
  /\ accepts["accept"].pc = "idle"
  /\ accepts' = [accepts EXCEPT !["accept"] = AcceptEntry(@, orderId)]
  /\ UNCHANGED <<orders, batch, storeVars, engVars>>

\* The order read was ACCEPTED: ALREADY_ACCEPTED is returned; else
\* store.listInventory() reads the ledger.
AcceptListInventory(c) ==
  /\ accepts[c].pc = "got"
  /\ IF accepts[c].status = "ACCEPTED"
     THEN /\ accepts' = [accepts EXCEPT ![c].pc = "done",
                                        ![c].outcome = "ALREADY_ACCEPTED"]
          /\ UNCHANGED inventory
     ELSE LET inv == IF store = "memory" THEN repairLegacyInventory(inventory)
                     ELSE inventory
          IN /\ inventory' = inv
             /\ accepts' = [accepts EXCEPT ![c].pc = "listed",
                                           ![c].rows = listInventory(inv)]
  /\ UNCHANGED <<orders, batch, store, nextInventoryId, plans, tasks, adds, engVars>>

\* The engine on the rows of the order's class, then store.createPlan.
AcceptCreatePlan(c) ==
  /\ accepts[c].pc = "listed"
  /\ LET order == orders[accepts[c].orderId]
         req == [params |-> <<>>, orderLines |-> <<OrderLineOf(order)>>]
     IN plans' = Append(plans, NewPlan(req, AcceptPlan(accepts[c].rows, order)))
  /\ accepts' = [accepts EXCEPT ![c].pc = "commit", ![c].planId = Len(plans) + 1]
  /\ UNCHANGED <<orders, batch, store, inventory, nextInventoryId, tasks, adds, engVars>>

\* The commitPlan call made for an acceptance: the call slot holding its plan.
CommitOf(c) == {t \in CallSlots : tasks[t].pc # "idle" /\ tasks[t].planId = accepts[c].planId}

\* await store.commitPlan(planId): the call is made.
AcceptCommitCall(c, t) ==
  /\ accepts[c].pc = "commit"
  /\ CommitOf(c) = {}
  /\ \/ MemCommitCall(t, accepts[c].planId)
     \/ PgCommitCall(t, accepts[c].planId)

\* The order marked whatever commitPlan did.
AfterCommit_MarksAnyway(acc, outcome) == [acc EXCEPT !.pc = "mark"]

\* After "await store.commitPlan(planId)": the next statement, or the error
\* thrown out of acceptStoredOrder.
AfterCommit(acc, outcome) ==
  IF outcome \in {"COMMITTED", "ALREADY_COMMITTED"}
  THEN [acc EXCEPT !.pc = "mark"]
  ELSE [acc EXCEPT !.pc = "done", !.outcome = outcome]

\* commitPlan has returned or thrown: on to markOrderAccepted, or the error
\* leaves acceptStoredOrder.
AcceptCommitReturn(c, t) ==
  /\ accepts[c].pc = "commit"
  /\ t \in CommitOf(c)
  /\ tasks[t].pc = "done"
  /\ accepts' = [accepts EXCEPT ![c] = AfterCommit(@, tasks[t].outcome)]
  /\ tasks' = [tasks EXCEPT ![t] = IdleTask]
  /\ UNCHANGED <<orders, batch, store, inventory, nextInventoryId, plans, adds, engVars>>

\* The fields markOrderAccepted writes.
Accepted(order, planId) ==
  [order EXCEPT !.status = "ACCEPTED", !.acceptedPlanIds = <<planId>>]

\* MemoryStore.markOrderAccepted: the order is set ACCEPTED unless it is.
MemMarkOrderAccepted(c) ==
  /\ store = "memory"
  /\ accepts[c].pc = "mark"
  /\ orders' = [orders EXCEPT ![accepts[c].orderId] =
                  IF @.status # "ACCEPTED" THEN Accepted(@, accepts[c].planId) ELSE @]
  /\ accepts' = [accepts EXCEPT ![c].pc = "done", ![c].outcome = "ACCEPTED"]
  /\ UNCHANGED <<batch, storeVars, engVars>>

\* PostgresStore.markOrderAccepted: getOrderById, and the order returned as
\* it is when that read finds it ACCEPTED.
PgMarkOrderRead(c) ==
  /\ store = "postgres"
  /\ accepts[c].pc = "mark"
  /\ accepts' = [accepts EXCEPT ![c] =
       IF orders[accepts[c].orderId].status = "ACCEPTED"
       THEN [@ EXCEPT !.pc = "done", !.outcome = "ACCEPTED"]
       ELSE [@ EXCEPT !.pc = "update"]]
  /\ UNCHANGED <<orders, batch, storeVars, engVars>>

\* UPDATE order_entries SET status = 'ACCEPTED', accepted_plan_ids = $2.
PgMarkOrderUpdate(c) ==
  /\ store = "postgres"
  /\ accepts[c].pc = "update"
  /\ orders' = [orders EXCEPT ![accepts[c].orderId] = Accepted(@, accepts[c].planId)]
  /\ accepts' = [accepts EXCEPT ![c].pc = "done", ![c].outcome = "ACCEPTED"]
  /\ UNCHANGED <<batch, storeVars, engVars>>

\* listOrders() filtered to the PENDING orders: their identifiers.
PendingIds == SelectSeq([i \in 1..Len(orders) |-> i],
                        LAMBDA id : orders[id].status = "PENDING")

\* POST /orders/accept-all to its first call of acceptStoredOrder.
BatchStart ==
  /\ batch.pc = "idle"
  /\ batch' = [pc |-> IF PendingIds = <<>> THEN "done" ELSE "running",
               pending |-> PendingIds, results |-> <<>>]
  /\ UNCHANGED <<orders, accepts, storeVars, engVars>>

\* The loop body's call: acceptStoredOrder(order.id) for the next order.
BatchAccept ==
  /\ batch.pc = "running"
  /\ accepts["accept-all"].pc = "idle"
  /\ accepts' = [accepts EXCEPT !["accept-all"] =
                   AcceptEntry(@, batch.pending[Len(batch.results) + 1])]
  /\ UNCHANGED <<orders, batch, storeVars, engVars>>

\* The try block's push or the catch block's push, for an ended call.
ResultOf(results, acc) ==
  Append(results,
         IF acc.outcome \in {"ACCEPTED", "ALREADY_ACCEPTED"}
         THEN [orderId |-> acc.orderId, status |-> acc.outcome,
               error |-> "none", planId |-> acc.planId]
         ELSE [orderId |-> acc.orderId, status |-> "FAILED",
               error |-> acc.outcome, planId |-> 0])

\* The loop's last order done, the handler returns its results.
BatchAfter_StopsAtFailure(results, pending) ==
  IF Len(results) = Len(pending) \/ results[Len(results)].status = "FAILED"
  THEN "done" ELSE "running"

BatchAfter(results, pending) ==
  IF Len(results) = Len(pending) THEN "done" ELSE "running"

\* acceptStoredOrder has returned or thrown: its result is pushed and the
\* loop goes on.
BatchCollect ==
  /\ batch.pc = "running"
  /\ accepts["accept-all"].pc = "done"
  /\ LET results == ResultOf(batch.results, accepts["accept-all"])
     IN batch' = [batch EXCEPT !.results = results,
                               !.pc = BatchAfter(results, batch.pending)]
  /\ accepts' = [accepts EXCEPT !["accept-all"] = IdleAccept]
  /\ UNCHANGED <<orders, storeVars, engVars>>

OrdInit ==
  /\ store \in {"memory", "postgres"}
  /\ \E led \in InitialLedgers :
        /\ inventory = led.inventory
        /\ nextInventoryId = led.nextInventoryId
  /\ plans = <<>>
  /\ tasks = [t \in CallSlots |-> IdleTask]
  /\ adds = 0
  /\ NoOrders
  /\ engInput = NoEngineCall
  /\ engResult = NoEngineCall
  /\ engDone = FALSE

OrdNext ==
  \/ \E entry \in OrderInputs : CreateOrders(entry)
  \/ \E orderId \in 0..Len(orders) : AcceptRoute(orderId)
  \/ BatchStart
  \/ BatchAccept
  \/ BatchCollect
  \/ \E c \in AcceptCallers : AcceptListInventory(c)
  \/ \E c \in AcceptCallers : AcceptCreatePlan(c)
  \/ \E c \in AcceptCallers : \E t \in CallSlots : AcceptCommitCall(c, t)
  \/ \E c \in AcceptCallers : \E t \in CallSlots : AcceptCommitReturn(c, t)
  \/ \E c \in AcceptCallers : MemMarkOrderAccepted(c)
  \/ \E c \in AcceptCallers : PgMarkOrderRead(c)
  \/ \E c \in AcceptCallers : PgMarkOrderUpdate(c)
  \/ \E t \in CallSlots : MemCommitResume(t)
  \/ \E t \in CallSlots : MemCommitReturn(t)
  \/ \E t \in CallSlots : PgUpdate(t)
  \/ \E t \in CallSlots : PgInsert(t)
  \/ \E t \in CallSlots : PgFinish(t)
  \/ \E t \in CallSlots : PgDeadlock(t)

SpecOrders == OrdInit /\ [][OrdNext]_vars


-----------------------------------------------------------------------------
(* Claims about the order queue *)

AcceptOutcomes == {"ACCEPTED", "ALREADY_ACCEPTED"}

\* The acceptance c ends in this step with an error.
EndsInError(c) ==
  /\ accepts[c].pc # "done"
  /\ accepts'[c].pc = "done"
  /\ accepts'[c].outcome \notin AcceptOutcomes

\* C24: a step that changes a queued order is made by an acceptance of that
\* order whose plan, created from that order's line, is COMMITTED before the
\* step, and it leaves the order ACCEPTED with that plan's identifier as its
\* only accepted plan; a queued order starts PENDING with no plan; and the
\* step in which an acceptance ends with an error (NotFoundError,
\* ConflictError or a database error) changes no order.
C24_AcceptedOnlyAfterCommitted ==
  [][/\ \A id \in 1..Len(orders) :
          orders'[id] # orders[id] =>
            \E c \in AcceptCallers :
               LET planId == accepts[c].planId
               IN /\ accepts[c].orderId = id
                  /\ planId \in 1..Len(plans)
                  /\ plans[planId].status = "COMMITTED"
                  /\ plans[planId].orderLines = <<OrderLineOf(orders[id])>>
                  /\ orders'[id] = [orders[id] EXCEPT !.status = "ACCEPTED",
                                                      !.acceptedPlanIds = <<planId>>]
     /\ \A id \in (Len(orders) + 1)..Len(orders') :
          orders'[id].status = "PENDING" /\ orders'[id].acceptedPlanIds = <<>>
     /\ \A c \in AcceptCallers : EndsInError(c) => orders' = orders]_vars

\* An order is ACCEPTED with a COMMITTED plan while the acceptance of another
\* order has ended in ConflictError and left it PENDING.
C24_Witness ==
  \E id \in 1..Len(orders) : \E c \in AcceptCallers :
     /\ orders[id].status = "ACCEPTED"
     /\ plans[orders[id].acceptedPlanIds[1]].status = "COMMITTED"
     /\ accepts[c].pc = "done"
     /\ accepts[c].outcome = "ConflictError"
     /\ accepts[c].orderId # id
     /\ orders[accepts[c].orderId].status = "PENDING"
     /\ plans[accepts[c].planId].status = "PLANNED"


\* C25: the accept-all request takes as its list the orders that are PENDING
\* when it starts, each once, and never changes the list; it calls
\* acceptStoredOrder for the listed orders one after the other, and the end
\* of each call, returned or thrown, adds exactly one result, for that order:
\* ACCEPTED or ALREADY_ACCEPTED as returned, or FAILED with the error's
\* message; the request ends when, and only when, every listed order has its
\* result, whatever the results before were.
C25_BatchOneOutcomePerPending ==
  [][LET call == accepts["accept-all"]
         next == Len(batch.results) + 1
     IN /\ (batch.pc = "idle" /\ batch'.pc # "idle") =>
              /\ batch'.pending = PendingIds
              /\ \A i, j \in 1..Len(PendingIds) : PendingIds[i] = PendingIds[j] => i = j
              /\ batch'.results = <<>>
        /\ batch.pc # "idle" => batch'.pending = batch.pending
        /\ (call.pc = "idle" /\ accepts'["accept-all"].pc # "idle") =>
              /\ batch.pc = "running"
              /\ accepts'["accept-all"].orderId = batch.pending[next]
        /\ batch'.results # batch.results =>
              /\ call.pc = "done"
              /\ call.orderId = batch.pending[next]
              /\ Len(batch'.results) = next
              /\ SubSeq(batch'.results, 1, next - 1) = batch.results
              /\ batch'.results[next].orderId = batch.pending[next]
              /\ IF call.outcome \in AcceptOutcomes
                 THEN batch'.results[next].status = call.outcome
                 ELSE /\ batch'.results[next].status = "FAILED"
                      /\ batch'.results[next].error = call.outcome
              /\ accepts'["accept-all"].pc = "idle"
        /\ batch'.pc = "done" <=>
              (batch'.pc # "idle" /\ Len(batch'.results) = Len(batch'.pending))]_vars

\* The request has ended with a FAILED result (ConflictError) for the first
\* of two orders and an ACCEPTED result for the second.
C25_Witness ==
  /\ batch.pc = "done"
  /\ Len(batch.pending) = 2
  /\ batch.results[1].status = "FAILED"
  /\ batch.results[1].error = "ConflictError"
  /\ batch.results[2].status = "ACCEPTED"
  /\ orders[batch.pending[1]].status = "PENDING"
  /\ orders[batch.pending[2]].status = "ACCEPTED"


-----------------------------------------------------------------------------
(* commitPlan called again: a call that has ended leaves its call slot to   *)
(* the next call, so that a plan can be committed, fail and be retried.     *)

\* The caller has its answer, COMMITTED: the slot is free for another call.
\* (A call that ended otherwise keeps its slot, which bounds the calls made.)
CommitReturned(t) ==
  /\ tasks[t].pc = "done"
  /\ tasks[t].outcome = "COMMITTED"
  /\ tasks' = [tasks EXCEPT ![t] = IdleTask]
  /\ UNCHANGED <<store, inventory, nextInventoryId, plans, adds, engVars, ordVars>>

RetryNext == Next \/ \E t \in CallSlots : CommitReturned(t)

SpecRetry == Init /\ [][RetryNext]_vars

\* The rows a plan's commit requires are all there in the ledger inv.
Sufficient(inv, planId) ==
  LET allocations == plans[planId].result.allocations
  IN \A a \in 1..Len(allocations) :
        LET id == allocations[a].stock.sourceId
        IN /\ id \in DOMAIN inv
           /\ inv[id].qty >= Cardinality({b \in 1..Len(allocations) :
                                            allocations[b].stock.sourceId = id})

-----------------------------------------------------------------------------
(* Determinism, defaults and the shape of the result *)

\* The bars of least leftover among those that can hold a cut of effectiveMm.
Tightest(bars, effectiveMm) ==
  {i \in Fits(bars, effectiveMm) :
     \A j \in Fits(bars, effectiveMm) : bars[j].remainingMm >= bars[i].remainingMm}

\* C27: a call of buildCutPlanBFDForPieces returns the one result its
\* inventory rows, piece list and params determine, so that a second call on
\* equal arguments returns an identical result; the bars stand in the order
\* of the inventory rows, a row's bars together; and each placement step
\* cuts, of the bars of least leftover that can hold the piece, the one
\* earliest in that order.
C27_DeterministicAllocation ==
  (engDone /\ engInput.fn = "buildCutPlanBFDForPieces") =>
    /\ engResult = buildCutPlanBFDForPieces(engInput.inventoryItems, engInput.piecesMm,
                                            engInput.params)
    /\ LET bars == expandInventory(engInput.inventoryItems)
           items == engInput.inventoryItems
       IN /\ Len(bars) = SeqSum([r \in 1..Len(items) |-> toNonNegativeInt(items[r].qty)])
          /\ \A i \in 1..Len(bars) : \E r \in 1..Len(items) :
                /\ bars[i].sourceId = items[r].id
                /\ i > SeqSum([q \in 1..(r - 1) |-> toNonNegativeInt(items[q].qty)])
                /\ i <= SeqSum([q \in 1..r |-> toNonNegativeInt(items[q].qty)])
    /\ ~EngLongestDoesNotFit =>
         LET pieces == EngPieces
             traj == EngTrajectory
         IN \A k \in 1..Len(pieces) :
              LET before == traj[k].bars
                  after == traj[k + 1].bars
                  tightest == Tightest(before, EffectiveOf(pieces[k]))
              IN tightest # {} =>
                   /\ after[SetMin(tightest)].cuts # before[SetMin(tightest)].cuts
                   /\ \A j \in 1..Len(before) : j # SetMin(tightest) => after[j] = before[j]

\* Two rows of equal length with a bar each and one piece: the cut is on the
\* bar of the first row.
C27_Witness ==
  /\ engDone
  /\ engInput.fn = "buildCutPlanBFDForPieces"
  /\ Len(engInput.inventoryItems) = 2
  /\ engInput.inventoryItems[1].lengthMm = engInput.inventoryItems[2].lengthMm
  /\ toNonNegativeInt(engInput.inventoryItems[1].qty) >= 1
  /\ toNonNegativeInt(engInput.inventoryItems[2].qty) >= 1
  /\ Len(EngPieces) = 1
  /\ Len(engResult.allocations) = 1
  /\ engResult.allocations[1].stock.sourceId = engInput.inventoryItems[1].id


\* The params given, with 3, 1 and 100 written in for a kerf, an allowance or
\* a minimum remnant left out.
WithDefaultsWritten(given) ==
  LET three == [kerfMm |-> IF "kerfMm" \in DOMAIN given THEN given.kerfMm ELSE 3,
                allowanceMm |-> IF "allowanceMm" \in DOMAIN given
                                THEN given.allowanceMm ELSE 1,
                minRemnantMm |-> IF "minRemnantMm" \in DOMAIN given
                                 THEN given.minRemnantMm ELSE 100]
  IN IF "toleranceMm" \in DOMAIN given
     THEN [kerfMm |-> three.kerfMm, allowanceMm |-> three.allowanceMm,
           minRemnantMm |-> three.minRemnantMm, toleranceMm |-> given.toleranceMm]
     ELSE three

\* The engine call under check made with other params.
EngReturnWith(params) ==
  IF engInput.fn = "buildCutPlanBFDForPieces"
  THEN buildCutPlanBFDForPieces(engInput.inventoryItems, engInput.piecesMm, params)
  ELSE buildCutPlanBFD(engInput.inventoryItems, engInput.orderLines, params)

\* C28: the engine and the route's mergePlanParams use kerf 3, allowance 1
\* and minimum remnant 100 for each of the three that the params leave out
\* and the given value for each that they hold, and the plan returned for
\* params that leave some or all of them out is the plan returned for the
\* same params with 3, 1 and 100 written in.
C28_DefaultParams ==
  LET written == WithDefaultsWritten(engInput.params)
      used == EngParams
      merged == mergePlanParams(engInput.params)
  IN /\ \A field \in {"kerfMm", "allowanceMm", "minRemnantMm"} :
           used[field] = written[field] /\ merged[field] = written[field]
     /\ engDone => engResult = EngReturnWith(written)

\* A call with params left out has cut a piece with 3 + 1 added to it and
\* not kept a remnant of less than 100.
C28_Witness ==
  /\ engDone
  /\ DOMAIN engInput.params = {}
  /\ engResult.allocations # <<>>
  /\ engResult.allocations[1].cuts[1].effectiveMm
       = engResult.allocations[1].cuts[1].pieceMm + 4
  /\ engResult.allocations[1].remnantMm > 0
  /\ ~engResult.allocations[1].remnantKept
  /\ engResult = EngReturnWith([kerfMm |-> 3, allowanceMm |-> 1, minRemnantMm |-> 100])


\* The pieces of positive length the call under check was asked for: the
\* entries of piecesMm that round to a positive length, or, per order line,
\* 2 * qty for a height and 2 * qty for a width that does.
EngPositivePieces ==
  IF engInput.fn = "buildCutPlanBFDForPieces"
  THEN Cardinality({i \in 1..Len(engInput.piecesMm) :
                      toNonNegativeInt(engInput.piecesMm[i]) > 0})
  ELSE SumOfLines(engInput.orderLines,
         [l \in FirstLines |->
            2 * toNonNegativeInt(l.qty)
              * ((IF toNonNegativeInt(l.heightMm) > 0 THEN 1 ELSE 0)
                 + (IF toNonNegativeInt(l.widthMm) > 0 THEN 1 ELSE 0))])

\* C29: in every result stats.totalPieces is the number of pieces of positive
\* length asked for, stats.totalUsedStocks is the number of allocations,
\* every allocation has at least one cut and is a bar of an inventory row
\* (its stock.sourceId and stock.lengthMm are the row's), and the allocations
\* of a row are at most the row's qty.
C29_StatsAndAllocationShape ==
  engDone =>
    LET allocations == engResult.allocations
        items == engInput.inventoryItems
    IN /\ engResult.stats.totalPieces = EngPositivePieces
       /\ engResult.stats.totalUsedStocks = Len(allocations)
       /\ \A a \in 1..Len(allocations) :
            /\ Len(allocations[a].cuts) >= 1
            /\ \E r \in 1..Len(items) :
                 /\ items[r].id = allocations[a].stock.sourceId
                 /\ toNonNegativeInt(items[r].lengthMm) = allocations[a].stock.lengthMm
       /\ \A r \in 1..Len(items) :
            Cardinality({a \in 1..Len(allocations) :
                           allocations[a].stock.sourceId = items[r].id})
              <= items[r].qty.n

\* Three entries of which two are positive, two rows, and both bars of a row
\* of qty 2 allocated.
C29_Witness ==
  /\ engDone
  /\ engInput.fn = "buildCutPlanBFDForPieces"
  /\ Len(engInput.piecesMm) = 3
  /\ engResult.stats.totalPieces = 2
  /\ Len(engInput.inventoryItems) = 2
  /\ \E r \in 1..2 :
       /\ engInput.inventoryItems[r].qty.n = 2
       /\ Cardinality({a \in 1..Len(engResult.allocations) :
                         engResult.allocations[a].stock.sourceId
                           = engInput.inventoryItems[r].id}) = 2
  /\ engResult.stats.totalUsedStocks = 2


-----------------------------------------------------------------------------
(* A plan committed against the ledger it was planned from *)

\* The ledger without what call t itself has taken from it and added to it.
LedgerWithout(t) ==
  [id \in DOMAIN inventory |->
     [inventory[id] EXCEPT !.qty = @ - DeltaAt(tasks[t].delta, id)]]

\* Apart from call t's own work the ledger is as acceptance c listed it, and
\* no other call holds a row it has written and not committed.
AsListed(c, t) ==
  /\ listInventory(LedgerWithout(t)) = accepts[c].rows
  /\ \A u \in CallSlots \ {t} : tasks[u].writes = <<>>

-----------------------------------------------------------------------------
(* Invariants of the ledger rows *)

\* C31 as stated: in every state every inventory row of the ledger, the
\* rows commitPlan has added for kept remnants included, has a length
\* greater than 0.
C31_RowLengthsPositive ==
  \A id \in DOMAIN inventory : inventory[id].lengthMm > 0

\* A MemoryStore commit of a plan whose bar was consumed exactly, its remnant
\* of 0 kept under minRemnantMm 0, has returned COMMITTED and the ledger
\* holds a row of length 0 which no state before the commit held.
C31_Witness ==
  /\ store = "memory"
  /\ adds = 0
  /\ \E t \in CallSlots :
        /\ tasks[t].pc = "done"
        /\ tasks[t].outcome = "COMMITTED"
        /\ \A id \in DOMAIN tasks[t].seen.inventory :
              tasks[t].seen.inventory[id].lengthMm > 0
        /\ \E a \in 1..Len(plans[tasks[t].planId].result.allocations) :
              LET allocation == plans[tasks[t].planId].result.allocations[a]
              IN /\ allocation.remnantMm = 0
                 /\ allocation.remnantKept
                 /\ plans[tasks[t].planId].params.minRemnantMm = 0
        /\ \E id \in DOMAIN inventory :
              /\ inventory[id].lengthMm = 0
              /\ inventory[id].qty = 1
              /\ id \notin DOMAIN tasks[t].seen.inventory


\* No two rows of the table inv have the same (class, length).
OneRowPerKey(inv) ==
  \A a, b \in DOMAIN inv : RowKey(inv[a]) = RowKey(inv[b]) => a = b

\* C32: before and after every step the ledger, and the table as each open
\* transaction sees it, hold at most one row per (class, length); a step
\* removes no row and changes no row's identifier, class or length; a row
\* it creates has a (class, length) no row had; and an addInventory call
\* for a (class, length) that has a row adds its qty to that row and creates
\* none, while one for a new (class, length) creates the one row.
C32_OneRowPerKey ==
  [][/\ OneRowPerKey(inventory)
     /\ OneRowPerKey(inventory')
     /\ \A t \in CallSlots : OneRowPerKey(Visible(tasks[t].writes))
     /\ \A id \in DOMAIN inventory :
          /\ id \in DOMAIN inventory'
          /\ inventory'[id].id = inventory[id].id
          /\ inventory'[id].inventoryClass = inventory[id].inventoryClass
          /\ inventory'[id].lengthMm = inventory[id].lengthMm
     /\ \A id \in DOMAIN inventory' \ DOMAIN inventory :
          /\ inventory'[id].id = id
          /\ IndexGet(inventory, RowKey(inventory'[id])) = 0
     /\ adds' # adds =>
          \E req \in AddRequests :
             LET existingId == IndexGet(inventory,
                                 toInventoryKey(req.lengthMm, req.inventoryClass))
             IN IF existingId # 0
                THEN inventory' = [inventory EXCEPT ![existingId].qty = @ + req.qty]
                ELSE /\ DOMAIN inventory' = DOMAIN inventory \cup {nextInventoryId}
                     /\ inventory'[nextInventoryId] =
                          [id |-> nextInventoryId, inventoryClass |-> req.inventoryClass,
                           lengthMm |-> req.lengthMm, qty |-> req.qty]
                     /\ \A id \in DOMAIN inventory : inventory'[id] = inventory[id]]_vars

\* Both kinds of addition have met a row of their key: an addInventory call
\* has raised the row of Komarnici 2000 from 2 to 3 bars, and a commit has
\* put its two kept remnants of 500 onto the one row of Komarnici 500, with
\* no row created.
C32_Witness ==
  /\ adds = 1
  /\ DOMAIN inventory = DOMAIN WornLedger.inventory
  /\ \E id \in DOMAIN inventory :
        /\ RowKey(inventory[id]) = toInventoryKey(2000, "Komarnici")
        /\ WornLedger.inventory[id].qty = 2
  /\ \E t \in CallSlots :
        /\ tasks[t].pc = "done"
        /\ tasks[t].outcome = "COMMITTED"
        /\ tasks[t].seen.adds = 1
        /\ \E id \in DOMAIN inventory :
              /\ RowKey(inventory[id]) = toInventoryKey(500, "Komarnici")
              /\ tasks[t].seen.inventory[id].qty = 1
              /\ inventory[id].qty = 3


-----------------------------------------------------------------------------
(* Material accounting, shortage and sufficiency of one engine call *)

\* C33: in every result, every cut of every allocation has effectiveMm =
\* pieceMm + allowance + kerf (the call's normalized params), the
\* allocation's usedMm is the sum of its cuts' effectiveMm, usedMm +
\* remnantMm is stock.lengthMm, and 0 <= remnantMm < stock.lengthMm.
C33_MaterialAccounting ==
  engDone =>
    \A a \in 1..Len(engResult.allocations) :
       LET allocation == engResult.allocations[a]
       IN /\ \A j \in 1..Len(allocation.cuts) :
               allocation.cuts[j].effectiveMm =
                 allocation.cuts[j].pieceMm + EngParams.allowanceMm + EngParams.kerfMm
          /\ allocation.usedMm =
               SeqSum([j \in 1..Len(allocation.cuts) |-> allocation.cuts[j].effectiveMm])
          /\ allocation.usedMm + allocation.remnantMm = allocation.stock.lengthMm
          /\ 0 <= allocation.remnantMm
          /\ allocation.remnantMm < allocation.stock.lengthMm

\* With allowance 1 and kerf 1, one bar holds two cuts whose effective
\* lengths use it up to a remnant of 0, more than the two pieces measure,
\* and another bar is cut once and keeps a remnant.
C33_Witness ==
  /\ engDone
  /\ EngParams.allowanceMm = 1
  /\ EngParams.kerfMm = 1
  /\ \E a \in 1..Len(engResult.allocations) :
        /\ Len(engResult.allocations[a].cuts) = 2
        /\ engResult.allocations[a].remnantMm = 0
        /\ engResult.allocations[a].usedMm
             = engResult.allocations[a].cuts[1].pieceMm
               + engResult.allocations[a].cuts[2].pieceMm + 4
  /\ \E a \in 1..Len(engResult.allocations) :
        /\ Len(engResult.allocations[a].cuts) = 1
        /\ engResult.allocations[a].remnantMm > 0


\* C34: when a call that went through the placement loop has returned, no
\* bar of the loop's final state, cut or not, has a remaining length of at
\* least pieceMm + allowance + kerf for any item of the shortage list; the
\* allocations returned are the cut bars of that state with their remaining
\* lengths, and the bars never cut still have their full length.
C34_NoShortageWhileRoom ==
  (engDone /\ ~EngLongestDoesNotFit) =>
    LET final == EngStateAfter(Len(EngPieces))
        allocations == engResult.allocations
    IN /\ \A s \in 1..Len(engResult.shortage) : \A i \in 1..Len(final.bars) :
            final.bars[i].remainingMm < EffectiveOf(engResult.shortage[s].pieceMm)
       /\ \A s \in 1..Len(engResult.shortage) :
            /\ engResult.shortage[s].pieceMm \in DOMAIN final.shortageMap
            /\ engResult.shortage[s].missingCount > 0
       /\ Len(allocations) = Cardinality({i \in 1..Len(final.bars) : final.bars[i].cuts # <<>>})
       /\ \A a \in 1..Len(allocations) : \E i \in 1..Len(final.bars) :
            /\ final.bars[i].cuts = allocations[a].cuts
            /\ final.bars[i].sourceId = allocations[a].stock.sourceId
            /\ final.bars[i].remainingMm = allocations[a].remnantMm
       /\ \A i \in 1..Len(final.bars) :
            final.bars[i].cuts = <<>> => final.bars[i].remainingMm = final.bars[i].originalMm

\* A piece is short while one bar was never cut and another, cut, has some
\* length left: neither is long enough for it.
C34_Witness ==
  /\ engDone
  /\ ~EngLongestDoesNotFit
  /\ engResult.shortage # <<>>
  /\ LET final == EngStateAfter(Len(EngPieces))
     IN /\ \E i \in 1..Len(final.bars) :
             final.bars[i].cuts = <<>> /\ final.bars[i].remainingMm > 0
        /\ \E i \in 1..Len(final.bars) :
             final.bars[i].cuts # <<>> /\ final.bars[i].remainingMm > 0


\* The bars of the inventory rows given to the call under check that are at
\* least lengthMm long: the sum of qty over the rows of such a length.
EngBarsOfAtLeast(lengthMm) ==
  LET items == engInput.inventoryItems
  IN SeqSum([r \in 1..Len(items) |->
               IF toNonNegativeInt(items[r].lengthMm) >= lengthMm
               THEN toNonNegativeInt(items[r].qty) ELSE 0])

\* C35: when the call under check is asked for at least one piece of
\* positive length and the inventory rows hold at least as many bars of
\* length >= longest piece + allowance + kerf as there are such pieces, the
\* result has status SUCCESS, an empty shortage list, and a cut for every
\* piece.
C35_SufficientStockSucceeds ==
  (/\ engDone
   /\ EngPieces # <<>>
   /\ EngBarsOfAtLeast(EngPieces[1] + EngParams.allowanceMm + EngParams.kerfMm)
        >= Len(EngPieces)) =>
    /\ engResult.status = "SUCCESS"
    /\ engResult.shortage = <<>>
    /\ CutsPlaced(engResult) = Len(EngPieces)

\* Pieces of two different lengths, exactly as many bars able to hold the
\* longest as there are pieces, two of them from one row, and the call has
\* returned SUCCESS with every piece on a bar of its own.
C35_Witness ==
  /\ engDone
  /\ Len(EngPieces) >= 2
  /\ EngPieces[1] > EngPieces[Len(EngPieces)]
  /\ EngBarsOfAtLeast(EngPieces[1] + EngParams.allowanceMm + EngParams.kerfMm)
       = Len(EngPieces)
  /\ \E r \in 1..Len(engInput.inventoryItems) :
        toNonNegativeInt(engInput.inventoryItems[r].qty) = 2
  /\ engResult.status = "SUCCESS"
  /\ engResult.shortage = <<>>
  /\ Len(engResult.allocations) = Len(EngPieces)


-----------------------------------------------------------------------------
(* Acceptances of one order *)

\* The plan acceptance c created is COMMITTED.
PlanCommitted(c) ==
  /\ accepts[c].planId \in 1..Len(plans)
  /\ plans[accepts[c].planId].status = "COMMITTED"

\* C36 as stated: of two acceptStoredOrder invocations on the same order, at
\* most one has its plan committed against the ledger and at most one
\* reports ACCEPTED.
C36_OrderConsumedAtMostOnce ==
  \A c, d \in AcceptCallers :
     (c # d /\ accepts[c].orderId # 0 /\ accepts[c].orderId = accepts[d].orderId) =>
        /\ ~(PlanCommitted(c) /\ PlanCommitted(d))
        /\ ~(accepts[c].outcome = "ACCEPTED" /\ accepts[d].outcome = "ACCEPTED")

\* The two routes have accepted the same order, which both read as PENDING:
\* each has created and committed a plan of its own that cuts bars, and each
\* has returned ACCEPTED.
C36_Witness ==
  LET c == "accept"
      d == "accept-all"
  IN /\ accepts[c].orderId # 0
     /\ accepts[c].orderId = accepts[d].orderId
     /\ accepts[c].status = "PENDING" /\ accepts[d].status = "PENDING"
     /\ accepts[c].pc = "done" /\ accepts[c].outcome = "ACCEPTED"
     /\ accepts[d].pc = "done" /\ accepts[d].outcome = "ACCEPTED"
     /\ accepts[c].planId # accepts[d].planId
     /\ PlanCommitted(c) /\ PlanCommitted(d)
     /\ plans[accepts[c].planId].result.allocations # <<>>
     /\ plans[accepts[d].planId].result.allocations # <<>>
     /\ Len(orders) = 1


\* C37: an acceptStoredOrder invocation that starts on an order that is
\* ACCEPTED reads it as ACCEPTED, and its only further step is its return
\* of ALREADY_ACCEPTED; neither step creates or changes a plan, starts or
\* moves a commitPlan call, or changes the ledger or any order (so the
\* order keeps the accepted plan identifiers of its first acceptance), and
\* the invocation has no plan; ALREADY_ACCEPTED is returned in no other
\* case; and MemoryStore.markOrderAccepted on an order that is ACCEPTED
\* leaves the order as it is.
C37_AlreadyAcceptedChangesNothing ==
  [][\A c \in AcceptCallers :
        /\ (/\ accepts[c].pc = "idle"
            /\ accepts'[c].pc # "idle"
            /\ accepts'[c].orderId \in 1..Len(orders)
            /\ orders[accepts'[c].orderId].status = "ACCEPTED") =>
              /\ accepts'[c].pc = "got"
              /\ accepts'[c].status = "ACCEPTED"
              /\ accepts'[c].planId = 0
              /\ UNCHANGED <<orders, plans, inventory, nextInventoryId, tasks, adds>>
        /\ (/\ accepts[c].pc = "got"
            /\ accepts[c].status = "ACCEPTED"
            /\ accepts'[c] # accepts[c]) =>
              /\ accepts'[c] = [accepts[c] EXCEPT !.pc = "done",
                                                  !.outcome = "ALREADY_ACCEPTED"]
              /\ accepts'[c].planId = 0
              /\ orders[accepts[c].orderId].status = "ACCEPTED"
              /\ UNCHANGED <<orders, plans, inventory, nextInventoryId, tasks, adds>>
        /\ (/\ accepts[c].outcome # "ALREADY_ACCEPTED"
            /\ accepts'[c].outcome = "ALREADY_ACCEPTED") =>
              accepts[c].pc = "got" /\ accepts[c].status = "ACCEPTED"
        /\ (/\ store = "memory"
            /\ accepts[c].pc = "mark"
            /\ accepts'[c].pc # "mark"
            /\ orders[accepts[c].orderId].status = "ACCEPTED") =>
              orders' = orders]_vars

\* An order accepted by one route, its one plan COMMITTED, has then been
\* accepted by the other, which returned ALREADY_ACCEPTED with no plan: the
\* order still names the first acceptance's plan and no second plan exists.
C37_Witness ==
  \E c, d \in AcceptCallers :
     /\ c # d
     /\ accepts[c].pc = "done"
     /\ accepts[c].outcome = "ALREADY_ACCEPTED"
     /\ accepts[c].planId = 0
     /\ accepts[d].pc = "done"
     /\ accepts[d].outcome = "ACCEPTED"
     /\ accepts[d].orderId = accepts[c].orderId
     /\ Len(plans) = 1
     /\ plans[1].status = "COMMITTED"
     /\ plans[1].result.allocations # <<>>
     /\ orders[accepts[c].orderId].status = "ACCEPTED"
     /\ orders[accepts[c].orderId].acceptedPlanIds = <<accepts[d].planId>>


-----------------------------------------------------------------------------
(* The two stores on one sequential trace: addInventory, planning and       *)
(* commitPlan calls made one after the other, each awaited before the next. *)

\* No commitPlan call is under way.
Quiet == \A t \in CallSlots : tasks[t].pc \in {"idle", "done"}

\* The next call of the trace is made once the one before has ended, and a
\* call under way takes its steps.
SeqNext ==
  \/ \E req \in PlanRequests : Quiet /\ PlanOrder(req)
  \/ \E req \in AddRequests : Quiet /\ MemAddInventory(req)
  \/ \E req \in AddRequests : Quiet /\ PgAddInventory(req)
  \/ \E t \in CallSlots : \E planId \in 0..Len(plans) : Quiet /\ MemCommitCall(t, planId)
  \/ \E t \in CallSlots : \E planId \in 0..Len(plans) : Quiet /\ PgCommitCall(t, planId)
  \/ \E t \in CallSlots : Quiet /\ CommitReturned(t)
  \/ \E t \in CallSlots : MemCommitResume(t)
  \/ \E t \in CallSlots : MemCommitReturn(t)
  \/ \E t \in CallSlots : PgUpdate(t)
  \/ \E t \in CallSlots : PgInsert(t)
  \/ \E t \in CallSlots : PgFinish(t)

SpecSeq == Init /\ [][SeqNext]_vars

\* The (class, length) -> quantity mapping of the rows inv, as the set of
\* its pairs with a quantity above 0.
Holdings(inv) ==
  {<<RowKey(inv[id]), inv[id].qty>> : id \in {i \in DOMAIN inv : inv[i].qty > 0}}

\* C38 as stated: on a sequential trace each call has, in MemoryStore and in
\* PostgresStore run from the state the call found, the same outcome and
\* the same effect.  A commitPlan call for an unknown plan ends in NotFound
\* and one for a COMMITTED plan in ALREADY_COMMITTED, in its first step and
\* with the ledger unchanged; a call for a PLANNED plan ends with the same
\* outcome, the same (class, length) -> quantity mapping and the same plan
\* status as MemoryStore.commitPlan and as PostgresStore.commitPlan run on
\* the rows it found; addInventory leaves the mapping either store's
\* addition gives; and the plan staged is the same from either store's
\* listInventory.
C38_StoresAgree ==
  [][/\ \A t \in CallSlots :
          LET planId == tasks'[t].planId
          IN /\ (Started(t) /\ planId \notin 1..Len(plans)) =>
                  /\ tasks'[t].pc = "done"
                  /\ tasks'[t].outcome = "NotFoundError"
                  /\ inventory' = inventory /\ plans' = plans
             /\ (Started(t) /\ planId \in 1..Len(plans)
                   /\ plans[planId].status = "COMMITTED") =>
                  /\ tasks'[t].pc = "done"
                  /\ tasks'[t].outcome = "ALREADY_COMMITTED"
                  /\ inventory' = inventory /\ plans' = plans
             /\ (/\ tasks[t].pc # "done"
                 /\ tasks'[t].pc = "done"
                 /\ tasks'[t].outcome \notin {"NotFoundError", "ALREADY_COMMITTED"}) =>
                  LET found == tasks'[t].seen.inventory
                      mem == MemCommitAlone(found, plans[planId].result)
                      pg == PgCommitAlone(found, plans[planId].result)
                  IN /\ mem.outcome = pg.outcome
                     /\ Holdings(mem.inventory) = Holdings(pg.inventory)
                     /\ tasks'[t].outcome = mem.outcome
                     /\ Holdings(inventory') = Holdings(mem.inventory)
                     /\ plans'[planId].status =
                          (IF mem.outcome = "COMMITTED" THEN "COMMITTED" ELSE "PLANNED")
     /\ adds' # adds =>
          \E req \in AddRequests :
             LET mem == addInventoryInternal(
                          [inventory |-> inventory, nextInventoryId |-> nextInventoryId],
                          req.lengthMm, req.qty, req.inventoryClass)
                 pg == Upsert(inventory, nextInventoryId, req.inventoryClass,
                              req.lengthMm, req.qty)
             IN /\ pg.ok
                /\ Holdings(mem.inventory) = Holdings(PutRow(inventory, pg.row))
                /\ Holdings(inventory') = Holdings(mem.inventory)
     /\ Len(plans') > Len(plans) =>
          \E req \in PlanRequests :
             /\ plans'[Len(plans')] = NewPlan(req, PlanResultFor(inventory, req))
             /\ PlanResultFor(repairLegacyInventory(inventory), req)
                  = PlanResultFor(inventory, req)]_vars

\* The first commitPlan call of a trace, for a plan that uses a bar up with
\* minRemnantMm 0, has ended, and the two stores differ on it: MemoryStore
\* returns COMMITTED with the bar taken, PostgresStore throws a database
\* error with the ledger as it was.
C38_Witness ==
  /\ tasks[1].pc = "done"
  /\ tasks[2].pc = "idle"
  /\ adds = 0
  /\ tasks[1].planId \in 1..Len(plans)
  /\ LET found == tasks[1].seen.inventory
         mem == MemCommitAlone(found, plans[tasks[1].planId].result)
         pg == PgCommitAlone(found, plans[tasks[1].planId].result)
     IN /\ mem.outcome = "COMMITTED"
        /\ pg.outcome = "DatabaseError"
        /\ Holdings(mem.inventory) # Holdings(pg.inventory)
        /\ tasks[1].outcome = (IF store = "memory" THEN mem.outcome ELSE pg.outcome)
        /\ Holdings(inventory) =
             Holdings(IF store = "memory" THEN mem.inventory ELSE pg.inventory)
        /\ store = "postgres"


-----------------------------------------------------------------------------
(* The staged plan as a snapshot *)

\* C39: no step removes a stored plan or changes its params, its order
\* lines or its result, whatever the step is: a commitPlan call starting,
\* going on or ending (COMMITTED, ALREADY_COMMITTED or an error), a later
\* plan being staged, or inventory being added; the one field that changes
\* is status, from PLANNED to COMMITTED, in a step of a commitPlan call for
\* that plan.
C39_PlanIsImmutable ==
  [][/\ Len(plans') >= Len(plans)
     /\ \A p \in 1..Len(plans) :
          /\ DOMAIN plans'[p] = DOMAIN plans[p]
          /\ plans'[p].params = plans[p].params
          /\ plans'[p].orderLines = plans[p].orderLines
          /\ plans'[p].result = plans[p].result
          /\ plans'[p].status # plans[p].status =>
               /\ plans[p].status = "PLANNED"
               /\ plans'[p].status = "COMMITTED"
               /\ \E t \in CallSlots :
                    /\ tasks'[t].planId = p
                    /\ tasks'[t] # tasks[t]
                    /\ tasks'[t].pc \in {"persist", "done"}]_vars

\* A plan that cuts bars is COMMITTED and still holds the result computed for
\* it on the ledger as constructed, after a second call for it has returned
\* ALREADY_COMMITTED, inventory has been added and a later plan was staged.
C39_Witness ==
  /\ Len(plans) = 2
  /\ adds = 1
  /\ plans[1].status = "COMMITTED"
  /\ plans[1].result.allocations # <<>>
  /\ \E t \in CallSlots :
        /\ tasks[t].pc = "done"
        /\ tasks[t].planId = 1
        /\ tasks[t].outcome = "ALREADY_COMMITTED"
  /\ \E led \in InitialLedgers : \E req \in PlanRequests :
        plans[1] = [NewPlan(req, PlanResultFor(led.inventory, req))
                      EXCEPT !.status = "COMMITTED"]

====
